---------------------------- MODULE Spec2Model ----------------------------
(***************************************************************************)
(* pathmatch: wildcard matching of file-system paths.                      *)
(*                                                                         *)
(* Strings are sequences of one-character strings.  A C pointer into a     *)
(* NUL-terminated string is the suffix it points at; reading the element   *)
(* one past the last character yields NUL.                                 *)
(***************************************************************************)
EXTENDS Integers, Sequences, FiniteSets, TLC

VARIABLES
    given,      \* parameters of the calls made by the driver of the matcher functions
    calls,      \* the calls still to be made and already made: <<[fn, pattern, string]>>
    results,    \* return values of the calls made so far, in call order
    fs,                 \* the file system: [tree, cwd, maxPathLength]
    args,               \* the pattern arguments of the driver
    call,               \* number of Match calls the driver has made
    pc,                 \* "ready", "walking" (inside Match), "aborted", "undefined"
    m_pattern,          \* PathMatcher: the groomed pattern
    m_path,             \* PathMatcher: the path buffer, up to its terminator
    m_dirsOnly,         \* PathMatcher: report directories only
    m_ellipsisPattern,  \* PathMatcher: pointer into m_pattern, or nullptr
    m_ellipsisPath,     \* PathMatcher: index into m_path
    stack,              \* the activations of MatchDir and FetchAll
    log,                \* directory listings made and reports delivered, in order
    oob,                \* a character was stored beyond m_path[maxPathLength]
    find_handles        \* the find handles that are open (FindFirstFile without FindClose)

pureVars == <<given, calls, results>>

walkVars == <<fs, args, call, pc, m_pattern, m_path, m_dirsOnly, m_ellipsisPattern,
              m_ellipsisPath, stack, log, oob, find_handles>>

vars == <<given, calls, results, fs, args, call, pc, m_pattern, m_path, m_dirsOnly,
          m_ellipsisPattern, m_ellipsisPath, stack, log, oob, find_handles>>

-----------------------------------------------------------------------------
(* Characters *)

NUL == "NUL"

\* *s for a pointer s
Ch(s) == IF s = <<>> THEN NUL ELSE Head(s)

\* s[i] for a pointer s and 0 <= i <= length
At(s, i) == IF i < Len(s) THEN s[i + 1] ELSE NUL

\* s + n
Adv(s, n) == SubSeq(s, n + 1, Len(s))

tolower(c) ==
    CASE c = "A" -> "a"
      [] c = "B" -> "b"
      [] c = "C" -> "c"
      [] OTHER   -> c

RECURSIVE LowerStr(_)
LowerStr(s) == IF s = <<>> THEN <<>> ELSE <<tolower(Head(s))>> \o LowerStr(Tail(s))

\* All strings over alphabet of length 0..n
Strs(alphabet, n) == UNION { [1..k -> alphabet] : k \in 0..n }

-----------------------------------------------------------------------------
(* Helper functions of pathmatcher.cpp *)

isSlash(c) == (c = "/") \/ (c = "\\")

isEllipsis(str) == (At(str, 0) = ".") /\ (At(str, 1) = ".") /\ (At(str, 2) = ".")

isDoubleAsterisk(str) == (At(str, 0) = "*") /\ (At(str, 1) = "*")

isMultiWildStr(str) == (At(str, 0) = "*") \/ isEllipsis(str)

-----------------------------------------------------------------------------
(* wildComp, C-string version (namespace PMatcher): case-insensitive *)

\* The scan over single-character matches; yields the pointers at loop exit.
RECURSIVE PMatcher_wildCompScan(_, _)
PMatcher_wildCompScan(pattern, string) ==
    IF Ch(pattern) # NUL /\ Ch(string) # NUL
       /\ Ch(pattern) # "*"
       /\ ~((Ch(pattern) # "?") /\ (tolower(Ch(pattern)) # tolower(Ch(string))))
    THEN PMatcher_wildCompScan(Tail(pattern), Tail(string))
    ELSE <<pattern, string>>

\* while (*pattern == '*') ++pattern
RECURSIVE SkipAsterisks(_)
SkipAsterisks(pattern) ==
    IF Ch(pattern) = "*" THEN SkipAsterisks(Tail(pattern)) ELSE pattern

RECURSIVE PMatcher_wildComp(_, _)
RECURSIVE PMatcher_wildCompEat(_, _)

\* while (true) { if (wildComp(pattern,string)) return true; if (!*string++) return false; }
PMatcher_wildCompEat(pattern, string) ==
    IF PMatcher_wildComp(pattern, string) THEN TRUE
    ELSE IF Ch(string) = NUL THEN FALSE
    ELSE PMatcher_wildCompEat(pattern, Tail(string))

PMatcher_wildComp(pattern, string) ==
    LET at  == PMatcher_wildCompScan(pattern, string)
        pat == at[1]
        str == at[2]
    IN  IF Ch(pat) # "*"
        THEN (Ch(pat) = NUL) /\ (Ch(str) = NUL)
        ELSE LET rest == SkipAsterisks(pat)
             IN  IF Ch(rest) = NUL THEN TRUE
                 ELSE PMatcher_wildCompEat(rest, str)

-----------------------------------------------------------------------------
(* wildComp, iterator version (namespace PathMatch, wildcomp.cpp).         *)
(* An iterator is the suffix it points at; patternEnd and strEnd are the    *)
(* empty suffix.  Dereferencing the end iterator is undefined: a build      *)
(* without iterator checking reads the string's terminator, a build with    *)
(* checked iterators stops the program.  The result is "true", "false" or   *)
(* "abort".                                                                 *)

\* *it for a string iterator: NUL or "abort" at the end
Deref(checked, it) ==
    IF it = <<>> THEN (IF checked THEN "abort" ELSE NUL) ELSE Head(it)

\* The scan over single-character matches (case-sensitive comparison).
RECURSIVE PathMatch_wildCompScan(_, _)
PathMatch_wildCompScan(patternIt, strIt) ==
    IF patternIt # <<>> /\ strIt # <<>>
       /\ Head(patternIt) # "*"
       /\ ~((Head(patternIt) # "?") /\ (Head(patternIt) # Head(strIt)))
    THEN PathMatch_wildCompScan(Tail(patternIt), Tail(strIt))
    ELSE <<patternIt, strIt>>

RECURSIVE PathMatch_wildComp(_, _, _)
RECURSIVE PathMatch_wildCompEat(_, _, _)

\* while (true) { if (wildComp(...)) return true; if (strIt == strEnd) return false; ++strIt; }
PathMatch_wildCompEat(checked, patternIt, strIt) ==
    LET r == PathMatch_wildComp(checked, patternIt, strIt)
    IN  IF r # "false" THEN r
        ELSE IF strIt = <<>> THEN "false"
        ELSE PathMatch_wildCompEat(checked, patternIt, Tail(strIt))

PathMatch_wildComp(checked, patternIt, strIt) ==
    LET at  == PathMatch_wildCompScan(patternIt, strIt)
        pat == at[1]
        str == at[2]
    IN  IF Deref(checked, pat) = "abort" THEN "abort"
        ELSE IF Deref(checked, pat) # "*"
        THEN (IF (pat = <<>>) /\ (str = <<>>) THEN "true" ELSE "false")
        ELSE LET rest == SkipAsterisks(pat)
             IN  IF Deref(checked, rest) = "abort" THEN "abort"
                 ELSE IF rest = <<>> THEN "true"
                 ELSE PathMatch_wildCompEat(checked, rest, str)

-----------------------------------------------------------------------------
(* pathMatch.  The two versions differ only in whether "**" is a           *)
(* multi-segment wildcard: doubleAsterisk is FALSE for namespace PMatcher   *)
(* and TRUE for namespace PathMatch.                                        *)

\* if (isSlash(p[0])) while (isSlash(p[1])) ++p;   (p[0] is known to be a slash)
RECURSIVE SkipRepeatedSlashes(_)
SkipRepeatedSlashes(p) ==
    IF isSlash(At(p, 1)) THEN SkipRepeatedSlashes(Tail(p)) ELSE p

\* Mutant of pathMatchScan: repeated slashes of the path are not consumed
RECURSIVE pathMatchScan_KeepPathSlashes(_, _)
pathMatchScan_KeepPathSlashes(pattern, path) ==
    IF Ch(pattern) = NUL \/ Ch(path) = NUL
    THEN [failed |-> FALSE, pattern |-> pattern, path |-> path]
    ELSE
      LET pattern1 == IF isSlash(Ch(pattern)) THEN SkipRepeatedSlashes(pattern) ELSE pattern
      IN  IF isSlash(Ch(pattern)) /\ ~isSlash(Ch(path))
          THEN [failed |-> TRUE, pattern |-> pattern, path |-> path]
          ELSE IF ~isSlash(Ch(pattern)) /\ isMultiWildStr(pattern)
          THEN [failed |-> FALSE, pattern |-> pattern, path |-> path]
          ELSE IF Ch(pattern1) # "?" /\ tolower(Ch(pattern1)) # tolower(Ch(path))
          THEN [failed |-> TRUE, pattern |-> pattern1, path |-> path]
          ELSE IF Ch(pattern1) = "?" /\ isSlash(Ch(path))
          THEN [failed |-> TRUE, pattern |-> pattern1, path |-> path]
          ELSE pathMatchScan_KeepPathSlashes(Tail(pattern1), Tail(path))

\* The scan up to the first multi-character wildcard.  Yields [failed, pattern, path]:
\* failed when the loop returned false, else the pointers at loop exit.
RECURSIVE pathMatchScan(_, _)
pathMatchScan(pattern, path) ==
    IF Ch(pattern) = NUL \/ Ch(path) = NUL
    THEN [failed |-> FALSE, pattern |-> pattern, path |-> path]
    ELSE
      LET path1 == IF isSlash(Ch(path)) THEN SkipRepeatedSlashes(path) ELSE path
          pattern1 == IF isSlash(Ch(pattern)) THEN SkipRepeatedSlashes(pattern) ELSE pattern
      IN  IF isSlash(Ch(pattern)) /\ ~isSlash(Ch(path1))
          THEN [failed |-> TRUE, pattern |-> pattern, path |-> path1]
          ELSE IF ~isSlash(Ch(pattern)) /\ isMultiWildStr(pattern)
          THEN [failed |-> FALSE, pattern |-> pattern, path |-> path1]
          ELSE IF Ch(pattern1) # "?" /\ tolower(Ch(pattern1)) # tolower(Ch(path1))
          THEN [failed |-> TRUE, pattern |-> pattern1, path |-> path1]
          ELSE IF Ch(pattern1) = "?" /\ isSlash(Ch(path1))
          THEN [failed |-> TRUE, pattern |-> pattern1, path |-> path1]
          ELSE pathMatchScan(Tail(pattern1), Tail(path1))

\* Mutant of SkipMultiWild: "**" is taken as two single asterisks
RECURSIVE SkipMultiWild_NoDoubleAsterisk(_, _, _)
SkipMultiWild_NoDoubleAsterisk(doubleAsterisk, pattern, fEllipsis) ==
    IF ~isMultiWildStr(pattern) THEN <<pattern, fEllipsis>>
    ELSE IF At(pattern, 0) = "*"
    THEN SkipMultiWild_NoDoubleAsterisk(doubleAsterisk, Adv(pattern, 1), fEllipsis)
    ELSE SkipMultiWild_NoDoubleAsterisk(doubleAsterisk, Adv(pattern, 3), TRUE)

\* Advance past the multi-character wildcards; yields <<pattern, fEllipsis>>.
RECURSIVE SkipMultiWild(_, _, _)
SkipMultiWild(doubleAsterisk, pattern, fEllipsis) ==
    IF ~isMultiWildStr(pattern) THEN <<pattern, fEllipsis>>
    ELSE IF doubleAsterisk
    THEN IF isEllipsis(pattern) THEN SkipMultiWild(doubleAsterisk, Adv(pattern, 3), TRUE)
         ELSE IF isDoubleAsterisk(pattern) THEN SkipMultiWild(doubleAsterisk, Adv(pattern, 2), TRUE)
         ELSE SkipMultiWild(doubleAsterisk, Adv(pattern, 1), fEllipsis)
    ELSE IF At(pattern, 0) = "*" THEN SkipMultiWild(doubleAsterisk, Adv(pattern, 1), fEllipsis)
         ELSE SkipMultiWild(doubleAsterisk, Adv(pattern, 3), TRUE)

\* ptr = pattern + 1; while (isSlash(*ptr)) ++ptr;
RECURSIVE SkipSlashes(_)
SkipSlashes(ptr) == IF isSlash(Ch(ptr)) THEN SkipSlashes(Tail(ptr)) ELSE ptr

RECURSIVE pathMatchImpl(_, _, _)
RECURSIVE pathMatchEllipsisNibble(_, _, _)
RECURSIVE pathMatchAsteriskNibble(_, _, _)
RECURSIVE pathMatchAsteriskNibble_CrossSlash(_, _, _)
RECURSIVE pathMatchEmptySubdirectory(_, _, _)

\* Mutant of pathMatchEmptySubdirectory: a wildcard never matches the empty subdirectory
pathMatchEmptySubdirectory_Never(doubleAsterisk, pattern, path) == FALSE

\* if (isSlash(*pattern)) { ptr = pattern + 1; while (isSlash(*ptr)) ++ptr;
\*                          if (pathMatch(ptr, path)) return true; }
pathMatchEmptySubdirectory(doubleAsterisk, pattern, path) ==
    isSlash(Ch(pattern)) /\ pathMatchImpl(doubleAsterisk, SkipSlashes(Tail(pattern)), path)

\* for (;; ++path) { if (pathMatch(pattern, path)) return true; if (*path == 0) return false; }
pathMatchEllipsisNibble(doubleAsterisk, pattern, path) ==
    IF pathMatchImpl(doubleAsterisk, pattern, path) THEN TRUE
    ELSE IF Ch(path) = NUL THEN FALSE
    ELSE pathMatchEllipsisNibble(doubleAsterisk, pattern, Tail(path))

\* Mutant of pathMatchAsteriskNibble: the nibbling does not stop at a separator
pathMatchAsteriskNibble_CrossSlash(doubleAsterisk, pattern, path) ==
    IF pathMatchImpl(doubleAsterisk, pattern, path) THEN TRUE
    ELSE IF Ch(path) = NUL THEN FALSE
    ELSE pathMatchAsteriskNibble_CrossSlash(doubleAsterisk, pattern, Tail(path))

\* for (; *path && !isSlash(*path); ++path) if (pathMatch(pattern, path)) return true;
\* return pathMatch(pattern, path);
pathMatchAsteriskNibble(doubleAsterisk, pattern, path) ==
    IF Ch(path) # NUL /\ ~isSlash(Ch(path))
    THEN IF pathMatchImpl(doubleAsterisk, pattern, path) THEN TRUE
         ELSE pathMatchAsteriskNibble(doubleAsterisk, pattern, Tail(path))
    ELSE pathMatchImpl(doubleAsterisk, pattern, path)

pathMatchImpl(doubleAsterisk, pattern, path) ==
    LET scan == pathMatchScan(pattern, path)
    IN  IF scan.failed THEN FALSE
        ELSE IF ~isMultiWildStr(scan.pattern)
        THEN (Ch(scan.pattern) = NUL) /\ (Ch(scan.path) = NUL)
        ELSE
          LET skipped   == SkipMultiWild(doubleAsterisk, scan.pattern, FALSE)
              rest      == skipped[1]
              fEllipsis == skipped[2]
          IN  IF fEllipsis /\ (Ch(rest) = NUL) THEN TRUE
              ELSE IF pathMatchEmptySubdirectory(doubleAsterisk, rest, scan.path)
              THEN TRUE
              ELSE IF fEllipsis
              THEN pathMatchEllipsisNibble(doubleAsterisk, rest, scan.path)
              ELSE pathMatchAsteriskNibble(doubleAsterisk, rest, scan.path)

\* namespace PMatcher: "..." is the only multi-segment wildcard
PMatcher_pathMatch(pattern, path) == pathMatchImpl(FALSE, pattern, path)

\* namespace PathMatch: "..." and "**" are multi-segment wildcards
PathMatch_pathMatch(pattern, path) == pathMatchImpl(TRUE, pattern, path)

-----------------------------------------------------------------------------
(* The file system behind FileSysProxy and its directory iterator *)

\* fs.tree: the entries below the namespace root, in the order a listing yields
\*          them: <<[path |-> <<name, ...>>, dir |-> BOOLEAN]>>
\* fs.cwd: the path of the current directory
\* fs.maxPathLength: the value of FileSysProxy::maxPathLength()

Front(s) == SubSeq(s, 1, Len(s) - 1)

Last(s) == s[Len(s)]

IsPrefix(p, q) == Len(p) <= Len(q) /\ SubSeq(q, 1, Len(p)) = p

Children_Reversed(tree, d) ==
    LET found == SelectSeq(tree, LAMBDA e : Len(e.path) = Len(d) + 1 /\ IsPrefix(d, e.path))
    IN  [i \in 1..Len(found) |-> found[Len(found) + 1 - i]]

\* The entries of directory d, in listing order
Children(tree, d) ==
    SelectSeq(tree, LAMBDA e : Len(e.path) = Len(d) + 1 /\ IsPrefix(d, e.path))

\* The components of a path string between runs of separators
RECURSIVE SplitPath(_, _)
SplitPath(s, cur) ==
    IF s = <<>> THEN <<cur>>
    ELSE IF isSlash(Head(s))
    THEN <<cur>> \o SplitPath(SkipSlashes(s), <<>>)
    ELSE SplitPath(Tail(s), Append(cur, Head(s)))

\* The directory reached from directory d through the components comps; names
\* are looked up without regard to case, "." and ".." are resolved
RECURSIVE WalkTo(_, _, _)
WalkTo(tree, d, comps) ==
    IF comps = <<>> THEN [ok |-> TRUE, path |-> d]
    ELSE IF Head(comps) = <<".">> THEN WalkTo(tree, d, Tail(comps))
    ELSE IF Head(comps) = <<".", ".">>
    THEN WalkTo(tree, IF d = <<>> THEN d ELSE Front(d), Tail(comps))
    ELSE LET hits == SelectSeq(Children(tree, d),
                        LAMBDA e : e.dir /\ LowerStr(Last(e.path)) = LowerStr(Head(comps)))
         IN  IF hits = <<>> THEN [ok |-> FALSE, path |-> <<>>]
             ELSE WalkTo(tree, hits[1].path, Tail(comps))

FindData(entries) ==
    IF entries = <<>> THEN <<>>
    ELSE [i \in 1..Len(entries) |-> [name |-> Last(entries[i].path), dir |-> entries[i].dir]]

\* The entries a DirectoryIterator constructed on path yields through next(),
\* name() and isDirectory(): FindFirstFile / FindNextFile.  A last component "*"
\* lists the directory ("." and ".." first, except at the namespace root); a
\* literal last component finds the entry of that name, if any.
DirectoryIterator(filesys, path) ==
    LET comps    == SplitPath(path, <<>>)
        absolute == path # <<>> /\ isSlash(path[1])
        names    == IF absolute THEN Tail(comps) ELSE comps
        last     == Last(names)
        parent   == WalkTo(filesys.tree, IF absolute THEN <<>> ELSE filesys.cwd, Front(names))
        self     == WalkTo(filesys.tree, parent.path, <<last>>)
    IN  IF last = <<>> \/ ~parent.ok THEN <<>>
        ELSE IF last = <<"*">>
        THEN (IF parent.path = <<>> THEN <<>>
              ELSE << [name |-> <<".">>, dir |-> TRUE], [name |-> <<".", ".">>, dir |-> TRUE] >>)
             \o FindData(Children(filesys.tree, parent.path))
        ELSE IF last \in { <<".">>, <<".", ".">> }
        THEN (IF self.path = <<>> THEN <<>>
              ELSE << [name |-> Last(self.path), dir |-> TRUE] >>)
        ELSE FindData(SelectSeq(Children(filesys.tree, parent.path),
                                LAMBDA e : LowerStr(Last(e.path)) = LowerStr(last)))

-----------------------------------------------------------------------------
(* PathMatcher (namespace PMatcher): helper functions *)

c_slash == "\\"

\* A null pointer to a string
nullptr == <<"nullptr">>

isDotsDir(str) ==
    (At(str, 0) = ".") /\ ((At(str, 1) = NUL) \/ ((At(str, 1) = ".") /\ (At(str, 2) = NUL)))

isUpDir(str) ==
    (At(str, 0) = ".") /\ (At(str, 1) = ".") /\ ((At(str, 2) = NUL) \/ isSlash(At(str, 2)))

\* The value of an errno_t, and the FAILED test the code applies to it
errno_t(retval) ==
    CASE retval = "S_OK"   -> 0
      [] retval = "EINVAL" -> 22
      [] retval = "ERANGE" -> 34

FAILED(hr) == hr < 0

\* wcsncpy_s (dest, size, src, count) for count = Len(src)
wcsncpy_s(size, src) ==
    IF size = 0 THEN "EINVAL"
    ELSE IF Len(src) < size THEN "S_OK"
    ELSE "ERANGE"

PathSpaceLeft(maxPathLength, pathend) == (maxPathLength + 1) - pathend - 1

\* The path buffer after str and a terminator are stored at pathend
Poke(path, pathend, str) == SubSeq(path, 1, pathend) \o str

AppendPath(maxPathLength, path, pathend, str) ==
    IF PathSpaceLeft(maxPathLength, pathend) < Len(str) + 1
    THEN [ok |-> FALSE, path |-> path, pathend |-> pathend]
    ELSE [ok |-> TRUE, path |-> Poke(path, pathend, str), pathend |-> pathend + Len(str)]

-----------------------------------------------------------------------------
(* PathMatcher::CopyGroomedPattern *)

\* Scan backwards from index p of dest to the beginning of the parent directory
RECURSIVE ParentStart(_, _)
ParentStart(dest, p) ==
    IF p > 0 /\ ~isSlash(At(dest, p)) THEN ParentStart(dest, p - 1) ELSE p

\* The candidate parent portion of dest for a "../" subpath: its index, or -1
ParentOf(dest) ==
    LET destlen == Len(dest)
        p0      == ParentStart(dest, destlen - 2)
        parent  == IF isSlash(At(dest, p0)) THEN p0 + 1 ELSE p0
    IN  IF (destlen >= 2) /\ isSlash(dest[destlen]) /\ ~isSlash(dest[destlen - 1])
        THEN IF isUpDir(Adv(dest, parent)) THEN -1 ELSE parent
        ELSE -1

\* Copy up till the next slash or end of pattern
RECURSIVE CopySubpath(_, _)
CopySubpath(src, dest) ==
    IF Ch(src) # NUL /\ ~isSlash(Ch(src))
    THEN CopySubpath(Tail(src), Append(dest, Head(src)))
    ELSE [src |-> src, dest |-> dest]

\* The copy loop.  fault "overread": src has stepped past the terminator of the
\* pattern (src += 3 on a final "..").
RECURSIVE CopyGroomedLoop(_, _, _)
CopyGroomedLoop(src, dest, dirsOnly) ==
    IF Ch(src) = NUL
    THEN [pattern |-> dest, dirsOnly |-> dirsOnly, fault |-> "none"]
    ELSE IF (At(src, 0) = ".") /\ ((At(src, 1) = NUL) \/ isSlash(At(src, 1)))
    THEN LET atStart == (dest = <<>>)
             src2    == SkipSlashes(Tail(src))
         IN  IF atStart
             THEN IF Ch(src2) = NUL
                  THEN CopyGroomedLoop(src2, Append(dest, "."), TRUE)
                  ELSE CopyGroomedLoop(src2, dest, dirsOnly)
             ELSE IF Ch(src2) = NUL
                  THEN CopyGroomedLoop(src2, Front(dest), TRUE)
                  ELSE CopyGroomedLoop(src2, dest, dirsOnly)
    ELSE IF isSlash(Ch(src))
    THEN IF At(src, 1) = NUL
         THEN CopyGroomedLoop(Tail(src), dest, TRUE)
         ELSE CopyGroomedLoop(SkipSlashes(Tail(src)), Append(dest, c_slash), dirsOnly)
    ELSE IF isUpDir(src)
    THEN IF At(src, 2) = NUL
         THEN [pattern |-> dest, dirsOnly |-> dirsOnly, fault |-> "overread"]
         ELSE LET src2   == SkipSlashes(Adv(src, 3))
                  parent == ParentOf(dest)
              IN  IF parent >= 0
                  THEN CopyGroomedLoop(src2, SubSeq(dest, 1, parent), dirsOnly)
                  ELSE CopyGroomedLoop(src2, dest \o <<".", ".", c_slash>>, dirsOnly)
    ELSE LET c == CopySubpath(src, dest)
         IN  CopyGroomedLoop(c.src, c.dest, dirsOnly)

\* Preserve leading multiple slashes at the beginning of the pattern
RECURSIVE LeadingSlashes(_)
LeadingSlashes(src) ==
    IF isSlash(Ch(src)) THEN <<Head(src)>> \o LeadingSlashes(Tail(src)) ELSE <<>>

\* The groomed pattern, the new value of m_dirsOnly, and what the closing
\* assert (!isSlash(dest[-1])) does: "none" when it holds, "assert" when it
\* fails, "underread" when dest[-1] lies before the buffer.
CopyGroomedPattern(pattern, dirsOnly) ==
    LET lead == LeadingSlashes(pattern)
        r    == CopyGroomedLoop(Adv(pattern, Len(lead)), lead, dirsOnly)
    IN  IF r.fault # "none" THEN r
        ELSE IF r.pattern = <<>> THEN [r EXCEPT !.fault = "underread"]
        ELSE IF isSlash(Last(r.pattern)) THEN [r EXCEPT !.fault = "assert"]
        ELSE r

-----------------------------------------------------------------------------
(* PathMatcher: the walk.  A frame of stack is one activation of MatchDir or
   FetchAll; the last frame is the running one. *)

INVALID_HANDLE_VALUE == 0

Frame(fn, pathend, pattern, ellipsis_prefix, isDirectory) ==
    [ fn              |-> fn,             \* "MatchDir" or "FetchAll"
      at              |-> "enter",        \* "enter": at the top; "loop": at while (dirEntry->next())
      pathend         |-> pathend,        \* index into m_path
      pattern         |-> pattern,        \* MatchDir: pointer into m_pattern
      ipatt           |-> 0,
      fliteral        |-> FALSE,
      fdirmatch       |-> FALSE,
      fdescend        |-> FALSE,
      subPattern      |-> <<>>,
      ellipsis_prefix |-> ellipsis_prefix,
      dirEntry        |-> <<>>,           \* the entries the iterator has yet to yield
      find_handle     |-> INVALID_HANDLE_VALUE,
      isDirectory     |-> isDirectory ]   \* isDirectory() of the entry the call was made for

Top == stack[Len(stack)]

\* FindFirstFile: the handle of the listing that the next "list" event of log
\* records, or INVALID_HANDLE_VALUE when nothing is found
FindFirstFile(entries) ==
    IF entries = <<>> THEN INVALID_HANDLE_VALUE ELSE Len(log) + 1

Opened(handle) ==
    IF handle = INVALID_HANDLE_VALUE THEN find_handles ELSE find_handles \cup {handle}

FindClose(handle) == find_handles \ {handle}

Return == SubSeq(stack, 1, Len(stack) - 1)

Continue(frame) == Append(Return, frame)

Call(frame, callee) == Append(Append(Return, frame), callee)

Event(kind, path, isDirectory, ret) ==
    [kind |-> kind, call |-> call, path |-> path, dir |-> isDirectory, ret |-> ret]

\* Match: locate the end of the root portion and the start of the wildcard pattern
RECURSIVE RootScan(_, _, _, _)
RootScan(pattern, ptr, rootend, wildstart) ==
    IF At(pattern, ptr) = NUL THEN [rootend |-> rootend, wildstart |-> wildstart]
    ELSE IF isSlash(At(pattern, ptr)) \/ (At(pattern, ptr) = ":")
    THEN RootScan(pattern, ptr + 1, ptr, ptr + 1)
    ELSE IF (At(pattern, ptr) = "?") \/ isMultiWildStr(Adv(pattern, ptr))
    THEN [rootend |-> rootend, wildstart |-> wildstart]
    ELSE RootScan(pattern, ptr + 1, rootend, wildstart)

\* The driver calls Match for the next pattern argument.  asserts: the build
\* keeps assert().
Match ==
    /\ pc = "ready"
    /\ call < Len(args)
    /\ \E asserts \in BOOLEAN :
         LET groomed == CopyGroomedPattern(args[call + 1], m_dirsOnly)
             root    == RootScan(groomed.pattern, 0, 0, 0)
             rootlen == IF root.rootend = 0 THEN 0 ELSE root.rootend + 1
         IN  /\ call' = call + 1
             /\ m_pattern' = groomed.pattern
             /\ m_dirsOnly' = groomed.dirsOnly
             /\ IF groomed.fault = "overread"
                THEN pc' = "undefined" /\ UNCHANGED <<m_path, stack>>
                ELSE IF groomed.fault \in {"assert", "underread"} /\ asserts
                THEN pc' = "aborted" /\ UNCHANGED <<m_path, stack>>
                ELSE IF rootlen > fs.maxPathLength
                THEN pc' = "aborted" /\ UNCHANGED <<m_path, stack>>
                ELSE /\ pc' = "walking"
                     /\ m_path' = SubSeq(groomed.pattern, 1, rootlen)
                     /\ stack' = << Frame("MatchDir", rootlen,
                                          Adv(groomed.pattern, root.wildstart), nullptr, TRUE) >>
    /\ UNCHANGED <<fs, args, m_ellipsisPattern, m_ellipsisPath, log, oob, find_handles,
                   pureVars>>

\* Match returns to the driver
MatchReturns ==
    /\ pc = "walking"
    /\ stack = <<>>
    /\ pc' = "ready"
    /\ UNCHANGED <<fs, args, call, m_pattern, m_path, m_dirsOnly, m_ellipsisPattern,
                   m_ellipsisPath, stack, log, oob, find_handles, pureVars>>

\* MatchDir: scan forward to the end of the pattern, a slash, or an ellipsis
RECURSIVE ScanSubpath(_, _)
ScanSubpath(pattern, ipatt) ==
    IF At(pattern, ipatt) # NUL /\ ~isSlash(At(pattern, ipatt)) /\ ~isEllipsis(Adv(pattern, ipatt))
    THEN ScanSubpath(pattern, ipatt + 1)
    ELSE ipatt

IsLiteral(pattern, ipatt) ==
    \A i \in 0..(ipatt - 1) : At(pattern, i) # "?" /\ At(pattern, i) # "*"

\* MatchDir, from its entry to the creation of the directory iterator, for a
\* subpath without ellipsis.  handlerReturns: the invalid-parameter handler that
\* wcsncpy_s invokes on failure returns instead of terminating the program.
MatchDir ==
    /\ pc = "walking"
    /\ stack # <<>>
    /\ Top.fn = "MatchDir"
    /\ Top.at = "enter"
    /\ LET pathend == Top.pathend
           pattern == Top.pattern
           ipatt   == ScanSubpath(pattern, 0)
       IN  /\ ~(pattern # <<>> /\ isEllipsis(Adv(pattern, ipatt)))
           /\ IF pattern = <<>>
              THEN /\ stack' = Return
                   /\ UNCHANGED <<pc, m_path, log, oob, find_handles>>
              ELSE \E handlerReturns \in BOOLEAN :
                   LET fliteral   == IsLiteral(pattern, ipatt)
                       fdirmatch  == isSlash(At(pattern, ipatt))
                       fdescend   == fdirmatch /\ (At(pattern, ipatt + 1) # NUL)
                       subPattern == SubSeq(pattern, 1, ipatt)
                       space      == PathSpaceLeft(fs.maxPathLength, pathend)
                       retval     == IF fliteral THEN wcsncpy_s(space, subPattern) ELSE "S_OK"
                       copied     == IF ~fliteral \/ retval = "EINVAL" THEN m_path
                                     ELSE IF retval = "S_OK" THEN Poke(m_path, pathend, subPattern)
                                     ELSE Poke(m_path, pathend, <<>>)
                       probe      == IF ~fliteral \/ FAILED(errno_t(retval))
                                     THEN Poke(copied, pathend, <<"*">>)
                                     ELSE copied
                   IN  IF retval # "S_OK" /\ ~handlerReturns
                       THEN /\ pc' = "aborted"
                            /\ UNCHANGED <<m_path, stack, log, oob, find_handles>>
                       ELSE /\ m_path' = probe
                            /\ oob' = (oob \/ Len(probe) > fs.maxPathLength)
                            /\ log' = Append(log, Event("list", probe, TRUE, TRUE))
                            /\ stack' = Continue([Top EXCEPT
                                            !.at = "loop", !.ipatt = ipatt,
                                            !.fliteral = fliteral, !.fdirmatch = fdirmatch,
                                            !.fdescend = fdescend, !.subPattern = subPattern,
                                            !.dirEntry = DirectoryIterator(fs, probe),
                                            !.find_handle =
                                                FindFirstFile(DirectoryIterator(fs, probe))])
                            /\ find_handles' = Opened(FindFirstFile(DirectoryIterator(fs, probe)))
                            /\ UNCHANGED pc
    /\ UNCHANGED <<fs, args, call, m_pattern, m_dirsOnly, m_ellipsisPattern, m_ellipsisPath,
                   pureVars>>

\* MatchDir for a subpath that contains an ellipsis: HandleEllipsisSubpath, up
\* to its call of FetchAll (after which both return)
HandleEllipsisSubpath ==
    /\ pc = "walking"
    /\ stack # <<>>
    /\ Top.fn = "MatchDir"
    /\ Top.at = "enter"
    /\ LET pathend == Top.pathend
           pattern == Top.pattern
           ipatt   == ScanSubpath(pattern, 0)
           simple  == (ipatt = 0) /\ (At(pattern, ipatt + 3) = NUL)
       IN  /\ pattern # <<>>
           /\ isEllipsis(Adv(pattern, ipatt))
           /\ m_ellipsisPattern' = IF simple THEN nullptr ELSE pattern
           /\ m_ellipsisPath' = IF simple THEN m_ellipsisPath ELSE pathend
           /\ stack' = Continue(Frame("FetchAll", pathend, <<>>,
                                      IF ~simple /\ ipatt > 0
                                      THEN Append(SubSeq(pattern, 1, ipatt), "*")
                                      ELSE nullptr,
                                      Top.isDirectory))
    /\ UNCHANGED <<fs, args, call, pc, m_pattern, m_path, m_dirsOnly, log, oob, find_handles,
                   pureVars>>

\* Skip files if the pattern ended in a slash or if the original pattern
\* specified directories only
MatchDirSkipsFile(dirsOnly, fdirmatch, isDirectory) ==
    (dirsOnly \/ fdirmatch) /\ ~isDirectory

MatchDirRejects_Nothing(fliteral, subPattern, entryName) == FALSE

MatchDirRejects(fliteral, subPattern, entryName) ==
    ~fliteral /\ ~PMatcher_wildComp(subPattern, entryName)

\* One turn of the loop of MatchDir: while (dirEntry->next()) { ... }, and the
\* return when the loop ends.  ret: what the callback returns.
MatchDirNext ==
    /\ pc = "walking"
    /\ stack # <<>>
    /\ Top.fn = "MatchDir"
    /\ Top.at = "loop"
    /\ \E ret \in BOOLEAN :
         IF Top.dirEntry = <<>>
         THEN /\ stack' = Return
              /\ find_handles' = FindClose(Top.find_handle)
              /\ UNCHANGED <<m_path, log>>
         ELSE LET entry    == Head(Top.dirEntry)
                  frame    == [Top EXCEPT !.dirEntry = Tail(Top.dirEntry)]
                  appended == AppendPath(fs.maxPathLength, m_path, Top.pathend, entry.name)
              IN  IF \/ isDotsDir(entry.name)
                     \/ MatchDirRejects(Top.fliteral, Top.subPattern, entry.name)
                     \/ MatchDirSkipsFile(m_dirsOnly, Top.fdirmatch, entry.dir)
                     \/ ~appended.ok
                  THEN /\ stack' = Continue(frame)
                       /\ UNCHANGED <<m_path, log, find_handles>>
                  ELSE IF Top.fdescend
                  THEN /\ m_path' = Append(appended.path, c_slash)
                       /\ stack' = Call(frame,
                                        Frame("MatchDir", appended.pathend + 1,
                                              Adv(Top.pattern, Top.ipatt + 1), nullptr, entry.dir))
                       /\ UNCHANGED <<log, find_handles>>
                  ELSE /\ m_path' = appended.path
                       /\ log' = Append(log, Event("report", appended.path, entry.dir, ret))
                       /\ stack' = IF ret THEN Continue(frame) ELSE Return
                       /\ find_handles' = IF ret THEN find_handles
                                          ELSE FindClose(Top.find_handle)
    /\ UNCHANGED <<fs, args, call, pc, m_pattern, m_dirsOnly, m_ellipsisPattern, m_ellipsisPath,
                   oob, pureVars>>

\* FetchAll, from its entry to the creation of the directory iterator
FetchAll ==
    /\ pc = "walking"
    /\ stack # <<>>
    /\ Top.fn = "FetchAll"
    /\ Top.at = "enter"
    /\ LET slashed == IF (Top.pathend > 0) /\ ~isSlash(At(m_path, Top.pathend - 1))
                      THEN AppendPath(fs.maxPathLength, m_path, Top.pathend, <<c_slash>>)
                      ELSE [ok |-> TRUE, path |-> m_path, pathend |-> Top.pathend]
           probe   == Poke(slashed.path, slashed.pathend, <<"*">>)
       IN  IF ~slashed.ok
           THEN /\ stack' = Return
                /\ UNCHANGED <<m_path, log, find_handles>>
           ELSE IF PathSpaceLeft(fs.maxPathLength, slashed.pathend) < 1
           THEN /\ stack' = Return
                /\ m_path' = slashed.path
                /\ UNCHANGED <<log, find_handles>>
           ELSE /\ m_path' = probe
                /\ log' = Append(log, Event("list", probe, TRUE, TRUE))
                /\ stack' = Continue([Top EXCEPT !.at = "loop", !.pathend = slashed.pathend,
                                                 !.dirEntry = DirectoryIterator(fs, probe),
                                                 !.find_handle =
                                                     FindFirstFile(DirectoryIterator(fs, probe))])
                /\ find_handles' = Opened(FindFirstFile(DirectoryIterator(fs, probe)))
    /\ UNCHANGED <<fs, args, call, pc, m_pattern, m_dirsOnly, m_ellipsisPattern, m_ellipsisPath,
                   oob, pureVars>>

\* if (!m_callback (m_path, finddata, m_cbdata)) return;  leaves find_handle as
\* it is
CancelledFind(handle) == find_handles

FetchAllDescends_OnlyIfMatched(isDirectory, matched) == isDirectory /\ matched

FetchAllDescends(isDirectory, matched) == isDirectory

\* One turn of the loop of FetchAll, and the return when the loop ends
FetchAllNext ==
    /\ pc = "walking"
    /\ stack # <<>>
    /\ Top.fn = "FetchAll"
    /\ Top.at = "loop"
    /\ \E ret \in BOOLEAN :
         IF Top.dirEntry = <<>>
         THEN /\ stack' = Return
              /\ find_handles' = FindClose(Top.find_handle)
              /\ UNCHANGED <<m_path, log>>
         ELSE LET entry    == Head(Top.dirEntry)
                  frame    == [Top EXCEPT !.dirEntry = Tail(Top.dirEntry)]
                  appended == AppendPath(fs.maxPathLength, m_path, Top.pathend, entry.name)
                  matched  == \/ m_ellipsisPattern = nullptr
                              \/ PMatcher_pathMatch(m_ellipsisPattern,
                                                    Adv(appended.path, m_ellipsisPath))
                  descend  == IF FetchAllDescends(entry.dir, matched)
                              THEN Call(frame, Frame("FetchAll", appended.pathend, <<>>,
                                                     nullptr, entry.dir))
                              ELSE Continue(frame)
              IN  IF \/ isDotsDir(entry.name)
                     \/ (m_dirsOnly /\ ~entry.dir)
                     \/ (Top.ellipsis_prefix # nullptr
                           /\ ~PMatcher_wildComp(Top.ellipsis_prefix, entry.name))
                  THEN /\ stack' = Continue(frame)
                       /\ UNCHANGED <<m_path, log, find_handles>>
                  ELSE IF ~appended.ok
                  THEN /\ stack' = Return
                       /\ find_handles' = FindClose(Top.find_handle)
                       /\ UNCHANGED <<m_path, log>>
                  ELSE /\ m_path' = appended.path
                       /\ find_handles' = CancelledFind(Top.find_handle)
                       /\ IF matched
                          THEN /\ log' = Append(log, Event("report", appended.path, entry.dir, ret))
                               /\ stack' = IF ret THEN descend ELSE Return
                          ELSE /\ UNCHANGED log
                               /\ stack' = descend
    /\ UNCHANGED <<fs, args, call, pc, m_pattern, m_dirsOnly, m_ellipsisPattern, m_ellipsisPath,
                   oob, pureVars>>

NextWalk ==
    \/ Match
    \/ MatchDir
    \/ HandleEllipsisSubpath
    \/ MatchDirNext
    \/ FetchAll
    \/ FetchAllNext
    \/ MatchReturns

\* The matcher before its first Match call
NewPathMatcher ==
    /\ call = 0
    /\ pc = "ready"
    /\ m_pattern = nullptr
    /\ m_path = <<>>
    /\ m_dirsOnly = FALSE
    /\ m_ellipsisPattern = nullptr
    /\ m_ellipsisPath = 0
    /\ stack = <<>>
    /\ log = <<>>
    /\ oob = FALSE
    /\ find_handles = {}

\* No walk: the matcher functions are called on their own
NoWalk ==
    /\ fs = [tree |-> <<>>, cwd |-> <<>>, maxPathLength |-> 0]
    /\ args = <<>>
    /\ NewPathMatcher

-----------------------------------------------------------------------------
(* The driver of the matcher functions: makes the calls of a test case in order *)

NextCall == calls[Len(results) + 1]

CallWildComp ==
    /\ Len(results) < Len(calls)
    /\ NextCall.fn = "PMatcher::wildComp"
    /\ results' = Append(results, PMatcher_wildComp(NextCall.pattern, NextCall.string))
    /\ UNCHANGED <<given, calls, walkVars>>

CallWildCompIter ==
    /\ Len(results) < Len(calls)
    /\ NextCall.fn = "PathMatch::wildComp"
    /\ \E checked \in BOOLEAN :
          results' = Append(results, PathMatch_wildComp(checked, NextCall.pattern, NextCall.string))
    /\ UNCHANGED <<given, calls, walkVars>>

CallPathMatchV0 ==
    /\ Len(results) < Len(calls)
    /\ NextCall.fn = "PMatcher::pathMatch"
    /\ results' = Append(results, PMatcher_pathMatch(NextCall.pattern, NextCall.string))
    /\ UNCHANGED <<given, calls, walkVars>>

CallPathMatch ==
    /\ Len(results) < Len(calls)
    /\ NextCall.fn = "PathMatch::pathMatch"
    /\ results' = Append(results, PathMatch_pathMatch(NextCall.pattern, NextCall.string))
    /\ UNCHANGED <<given, calls, walkVars>>


NextMatchers == CallWildComp \/ CallWildCompIter \/ CallPathMatchV0 \/ CallPathMatch

-----------------------------------------------------------------------------
(* Reference semantics used to state the claims *)

\* Character comparison of the two wildComp versions
SameChar(caseless, a, b) == IF caseless THEN tolower(a) = tolower(b) ELSE a = b

\* s is obtained from P by replacing each '?' by one character and each '*' by a string
RECURSIVE RefWild(_, _, _)
RefWild(caseless, P, s) ==
    IF P = <<>> THEN s = <<>>
    ELSE IF Head(P) = "*"
    THEN \E k \in 0..Len(s) : RefWild(caseless, Tail(P), SubSeq(s, k + 1, Len(s)))
    ELSE /\ s # <<>>
         /\ (Head(P) = "?" \/ SameChar(caseless, Head(P), Head(s)))
         /\ RefWild(caseless, Tail(P), Tail(s))

\* The components of s between runs of separators (a leading or trailing run
\* leaves an empty first or last component)
RECURSIVE Components(_, _)
Components(s, cur) ==
    IF s = <<>> THEN <<cur>>
    ELSE IF isSlash(Head(s))
    THEN <<cur>> \o Components(SkipSlashes(s), <<>>)
    ELSE Components(Tail(s), Append(cur, Head(s)))

\* Number of runs of separators in s
SepRuns(s) == Len(Components(s, <<>>)) - 1

\* Component-wise match: as many components, each matched by wildcard rules
RefPath(P, p) ==
    LET cp == Components(P, <<>>)
        cs == Components(p, <<>>)
    IN  /\ Len(cp) = Len(cs)
        /\ \A i \in 1..Len(cp) : RefWild(TRUE, cp[i], cs[i])

\* P holds c immediately followed by d
HasPair(P, c, d) == \E i \in 1..(Len(P) - 1) : P[i] = c /\ P[i + 1] = d

HasEllipsis(P) == \E i \in 1..(Len(P) - 2) : P[i] = "." /\ P[i + 1] = "." /\ P[i + 2] = "."

Str3(a, b, c) == <<a, b, c>>

-----------------------------------------------------------------------------
(* Bounds of the matcher test cases *)

MaxPatLen == 3
MaxStrLen == 3

-----------------------------------------------------------------------------
(* SpecStar: PMatcher::pathMatch on patterns of literals, '?', '*' and separators *)

StarExamples ==
    { [pattern |-> <<"a", "*", "c">>, path |-> <<"a", "b", "b", "c">>],
      [pattern |-> <<"a", "?", "c">>, path |-> <<"a", "b", "b", "c">>] }

InitStar ==
    /\ \/ \E P \in Strs({"a", "c", "?", "*", "/"}, MaxPatLen),
             q \in Strs({"a", "b", "c", "/"}, MaxStrLen) :
               given = [pattern |-> P, path |-> q]
       \/ given \in StarExamples
    /\ calls = << [fn |-> "PMatcher::pathMatch", pattern |-> given.pattern, string |-> given.path] >>
    /\ results = <<>>
    /\ NoWalk

SpecStar == InitStar /\ [][CallPathMatchV0]_vars

\* C5: in pathMatch neither '?' nor '*' consumes a separator: a matching path has
\* no more separator runs than the pattern; outside the zero-width case of a '*'
\* followed by a separator, the path matches exactly when it has one component per
\* pattern component, each matched with '?' standing for one character and '*' for
\* zero or more characters; and the named examples come out as stated.
C5_StarNeverCrossesSeparator ==
    (Len(results) = 1) =>
        /\ results[1] => SepRuns(given.path) <= SepRuns(given.pattern)
        /\ ~HasPair(given.pattern, "*", "/") =>
               (results[1] = RefPath(given.pattern, given.path))
        /\ (given.pattern = <<"a", "*", "c">> /\ given.path = <<"a", "/", "c">>) => ~results[1]
        /\ (given.pattern = <<"a", "?", "c">> /\ given.path = <<"a", "/", "c">>) => ~results[1]
        /\ (given.pattern = <<"a", "*", "c">> /\ given.path = <<"a", "c">>) => results[1]
        /\ (given.pattern = <<"a", "*", "c">> /\ given.path = <<"a", "b", "c">>) => results[1]
        /\ (given.pattern = <<"a", "?", "c">> /\ given.path = <<"a", "b", "c">>) => results[1]
        /\ (given.pattern = <<"a", "?", "c">> /\ given.path = <<"a", "c">>) => ~results[1]
        /\ (given.pattern = <<"a", "?", "c">> /\ given.path = <<"a", "b", "b", "c">>) => ~results[1]
        /\ (given.pattern = <<"a", "*", "c">> /\ given.path = <<"a", "b", "b", "c">>) => results[1]

\* C5 witness: 'a*c' has been matched against 'a/c' and rejected
C5_Witness ==
    /\ given.pattern = <<"a", "*", "c">>
    /\ given.path = <<"a", "/", "c">>
    /\ results = <<FALSE>>

-----------------------------------------------------------------------------
(* SpecSpell: PathMatch::pathMatch on the two spellings of the multi-segment wildcard *)

MaxAffixLen == 2

Ellipsis == <<".", ".", ".">>
DoubleAsterisk == <<"*", "*">>

InitSpell ==
    /\ \E a \in Strs({"a", ".", "*", "/"}, MaxAffixLen),
          b \in Strs({"a", ".", "*", "/"}, MaxAffixLen),
          q \in Strs({"a", ".", "/"}, MaxStrLen) :
            given = [A |-> a, B |-> b, path |-> q]
    /\ calls = << [fn |-> "PathMatch::pathMatch",
                   pattern |-> given.A \o Ellipsis \o given.B, string |-> given.path],
                  [fn |-> "PathMatch::pathMatch",
                   pattern |-> given.A \o DoubleAsterisk \o given.B, string |-> given.path] >>
    /\ results = <<>>
    /\ NoWalk

SpecSpell == InitSpell /\ [][CallPathMatch]_vars

EndsWith(s, c) == s # <<>> /\ s[Len(s)] = c

\* C6 as stated: for all A, B and p, pathMatch(A + '...' + B, p) equals
\* pathMatch(A + '**' + B, p), including when A ends with '.'
C6_SpellingsInterchangeable ==
    (Len(results) = 2) => (results[1] = results[2])

\* C6 amended: for all A not ending with '.', all B and all p,
\* pathMatch(A + '...' + B, p) equals pathMatch(A + '**' + B, p)
C6_SpellingsInterchangeableAmended ==
    (Len(results) = 2 /\ ~EndsWith(given.A, ".")) => (results[1] = results[2])

\* C6 witness: both spellings have matched 'a/a' across the separator
C6_Witness ==
    /\ given.A = <<"a">> /\ given.B = <<"a">>
    /\ given.path = <<"a", "/", "a">>
    /\ results = <<TRUE, TRUE>>

-----------------------------------------------------------------------------
(* SpecSlash: PMatcher::pathMatch on a pattern and a path, and on the same two
   with separators replaced by the other separator character *)

\* The strings got from s by replacing any of its separators by either separator
SlashVariants(s) ==
    { t \in [1..Len(s) -> {"a", "?", "*", "/", "\\"}] :
        \A i \in 1..Len(s) : IF isSlash(s[i]) THEN isSlash(t[i]) ELSE t[i] = s[i] }

InitSlash ==
    /\ \E P \in Strs({"a", "?", "*", "/", "\\"}, MaxPatLen),
          q \in Strs({"a", "/", "\\"}, MaxStrLen) :
            \E P2 \in SlashVariants(P), q2 \in SlashVariants(q) :
               given = [pattern |-> P, path |-> q, pattern2 |-> P2, path2 |-> q2]
    /\ calls = << [fn |-> "PMatcher::pathMatch", pattern |-> given.pattern, string |-> given.path],
                  [fn |-> "PMatcher::pathMatch", pattern |-> given.pattern2, string |-> given.path2] >>
    /\ results = <<>>
    /\ NoWalk

SpecSlash == InitSlash /\ [][CallPathMatchV0]_vars

\* C7: pathMatch treats '/' and '\' as the same separator: replacing separators of
\* the pattern or of the path by the other separator character leaves the result
\* unchanged; in particular 'a/a' matches the path a\a
C7_SeparatorsEquivalent ==
    (Len(results) = 2) => (results[1] = results[2])

-----------------------------------------------------------------------------
(* SpecLiteral: PMatcher::pathMatch of a literal pattern P against itself and
   against another path Q *)

\* Runs of separators collapsed to one separator
RECURSIVE CollapseSeparators(_)
CollapseSeparators(s) ==
    IF s = <<>> THEN <<>>
    ELSE IF isSlash(Head(s))
    THEN <<"/">> \o CollapseSeparators(SkipSlashes(s))
    ELSE <<Head(s)>> \o CollapseSeparators(Tail(s))

InitLiteral ==
    /\ \E x \in { z \in Strs({"a", "A", ".", "/", "\\"}, MaxPatLen) : ~HasEllipsis(z) },
          y \in Strs({"a", "A", ".", "/", "\\"}, MaxStrLen) :
            given = [P |-> x, Q |-> y]
    /\ calls = << [fn |-> "PMatcher::pathMatch", pattern |-> given.P, string |-> given.P],
                  [fn |-> "PMatcher::pathMatch", pattern |-> given.P, string |-> given.Q] >>
    /\ results = <<>>
    /\ NoWalk

SpecLiteral == InitLiteral /\ [][CallPathMatchV0]_vars

\* C8 as stated: for a literal pattern P, pathMatch(P, P) is true, and pathMatch(P, Q)
\* is false for every Q that differs from P after runs of separators are collapsed
C8_LiteralMatchesOnlyItself ==
    /\ (Len(results) >= 1) => results[1]
    /\ (Len(results) = 2 /\ CollapseSeparators(given.Q) # CollapseSeparators(given.P))
           => ~results[2]

\* C8 amended: for a literal pattern P, pathMatch(P, P) is true, and pathMatch(P, Q)
\* is false for every Q that differs from P in more than letter case after runs of
\* separators are collapsed
C8_LiteralMatchesOnlyItselfAmended ==
    /\ (Len(results) >= 1) => results[1]
    /\ (Len(results) = 2
        /\ LowerStr(CollapseSeparators(given.Q)) # LowerStr(CollapseSeparators(given.P)))
           => ~results[2]

\* C8 witness: 'a/a' has matched itself and has been rejected for the path 'a/.'
C8_Witness ==
    /\ given.P = <<"a", "/", "a">>
    /\ given.Q = <<"a", "/", ".">>
    /\ results = <<TRUE, FALSE>>

-----------------------------------------------------------------------------
(* SpecWild: the two wildComp versions on a pattern P and a string s, and the
   iterator version on the lower-cased P and s *)

InitWild ==
    /\ \E P \in Strs({"a", "A", "b", "?", "*"}, MaxPatLen),
          s \in Strs({"a", "A", "b"}, MaxStrLen) :
            given = [pattern |-> P, string |-> s]
    /\ calls = << [fn |-> "PMatcher::wildComp", pattern |-> given.pattern, string |-> given.string],
                  [fn |-> "PathMatch::wildComp", pattern |-> given.pattern, string |-> given.string],
                  [fn |-> "PathMatch::wildComp", pattern |-> LowerStr(given.pattern),
                                                 string |-> LowerStr(given.string)] >>
    /\ results = <<>>
    /\ NoWalk

SpecWild == InitWild /\ [][CallWildComp \/ CallWildCompIter]_vars

AsText(b) == IF b THEN "true" ELSE "false"

\* C9: wildComp(P, s) is true exactly when s is obtained from P by replacing each '?'
\* by one character and each '*' by a possibly empty string, the other characters of
\* P being matched by the corresponding characters of s (without regard to case in
\* the C-string version, exactly in the iterator version)
C9_WildCompMatchesExactly ==
    /\ (Len(results) >= 1) => (results[1] = RefWild(TRUE, given.pattern, given.string))
    /\ (Len(results) >= 2) => (results[2] = AsText(RefWild(FALSE, given.pattern, given.string)))

\* C9 for the C-string version alone
C9_CStringWildComp ==
    (Len(results) >= 1) => (results[1] = RefWild(TRUE, given.pattern, given.string))

\* C9 for the iterator version in a build whose end-iterator reads yield the terminator
C9_IteratorWildCompWhenReturning ==
    (Len(results) >= 2 /\ results[2] # "abort")
        => (results[2] = AsText(RefWild(FALSE, given.pattern, given.string)))

\* C10: wildComp compares literal characters without regard to case: whenever both
\* calls return, wildComp(P, s) equals wildComp(lower(P), lower(s))
C10_WildCompIgnoresCase ==
    (Len(results) = 3 /\ results[2] # "abort" /\ results[3] # "abort")
        => (results[2] = results[3])

\* C10 for the C-string version: it accepts exactly what a caseless comparison accepts
C10_CStringWildCompIgnoresCase ==
    (Len(results) >= 1)
        => (results[1] = PMatcher_wildComp(LowerStr(given.pattern), LowerStr(given.string)))

-----------------------------------------------------------------------------
(* SpecWalk: the driver calls Match for each pattern argument on one
   PathMatcher, over a file system and with a callback that may return either
   value at each report *)

MaxSegments == 3
MaxPath == 17
SmallPath == 4

N_a == <<"a">>
N_b == <<"b">>
N_ab == <<"a", "b">>
N_abc == <<"a", "b", "c">>
N_def == <<"d", "e", "f">>
N_ghi == <<"g", "h", "i">>
N_jkl == <<"j", "k", "l">>
N_xyz == <<"x", "y", "z">>
N_src == <<"s", "r", "c">>
N_sub == <<"s", "u", "b">>
N_foo_obj == <<"f", "o", "o", ".", "o", "b", "j">>
N_foo_objx == <<"f", "o", "o", ".", "o", "b", "j", "x">>

\* files abc/def/ghi/jkl and abc/xyz
TreeLetters ==
    << [path |-> <<N_abc>>, dir |-> TRUE],
       [path |-> <<N_abc, N_def>>, dir |-> TRUE],
       [path |-> <<N_abc, N_def, N_ghi>>, dir |-> TRUE],
       [path |-> <<N_abc, N_def, N_ghi, N_jkl>>, dir |-> FALSE],
       [path |-> <<N_abc, N_xyz>>, dir |-> FALSE] >>

\* files src/sub/foo.obj and src/sub/foo.objx
TreeObjects ==
    << [path |-> <<N_src>>, dir |-> TRUE],
       [path |-> <<N_src, N_sub>>, dir |-> TRUE],
       [path |-> <<N_src, N_sub, N_foo_obj>>, dir |-> FALSE],
       [path |-> <<N_src, N_sub, N_foo_objx>>, dir |-> FALSE] >>

\* directories a, a/b and b, files a/a, a/b/a, b/a and ab
TreeSmall ==
    << [path |-> <<N_a>>, dir |-> TRUE],
       [path |-> <<N_a, N_a>>, dir |-> FALSE],
       [path |-> <<N_a, N_b>>, dir |-> TRUE],
       [path |-> <<N_a, N_b, N_a>>, dir |-> FALSE],
       [path |-> <<N_b>>, dir |-> TRUE],
       [path |-> <<N_b, N_a>>, dir |-> FALSE],
       [path |-> <<N_ab>>, dir |-> FALSE] >>

RECURSIVE JoinWith(_, _)
JoinWith(segs, sep) ==
    IF segs = <<>> THEN <<>>
    ELSE IF Len(segs) = 1 THEN segs[1]
    ELSE segs[1] \o sep \o JoinWith(Tail(segs), sep)

Segments ==
    { <<"a">>, <<"B">>, <<"?">>, <<"*">>, Ellipsis, <<"a">> \o Ellipsis, Ellipsis \o <<"a">> }

Endings == { <<>>, <<"/">>, <<"\\", "/">> }

\* Patterns of up to n segments
Patterns(n) ==
    UNION { { JoinWith(s, <<"/">>) \o e : s \in [1..k -> Segments], e \in Endings } : k \in 1..n }

P_abc_dqf_qqi_jkl == JoinWith(<<N_abc, <<"d", "?", "f">>, <<"?", "?", "i">>, N_jkl>>, <<"/">>)
P_abc_s_s_jkl == JoinWith(<<N_abc, <<"*">>, <<"*">>, N_jkl>>, <<"/">>)
P_abc_e_jkl == JoinWith(<<N_abc, Ellipsis, N_jkl>>, <<"/">>)
P_ab_e_kl == <<"a", "b">> \o Ellipsis \o <<"k", "l">>
P_e_obj == Ellipsis \o <<".", "o", "b", "j">>

ExampleWalks ==
    { [tree |-> TreeLetters, args |-> <<P_abc_dqf_qqi_jkl>>],
      [tree |-> TreeLetters, args |-> <<P_abc_s_s_jkl>>],
      [tree |-> TreeLetters, args |-> <<P_abc_e_jkl>>],
      [tree |-> TreeLetters, args |-> <<P_ab_e_kl>>],
      [tree |-> TreeLetters, args |-> <<JoinWith(<<N_abc, <<"*">>>>, <<"\\">>)>>],
      [tree |-> TreeLetters, args |-> <<JoinWith(<<<<"A", "B", "C">>, Ellipsis>>, <<"/">>) \o <<"/">>>>],
      [tree |-> TreeObjects, args |-> <<P_e_obj>>],
      [tree |-> TreeObjects, args |-> <<JoinWith(<<N_src, <<"*">>, <<"*", ".", "o", "b", "j">>>>, <<"/">>)>>],
      [tree |-> TreeSmall,   args |-> <<<<"*", "/">>, <<"*">>>>],
      [tree |-> TreeSmall,   args |-> <<JoinWith(<<N_a, <<".">>, <<"*">>>>, <<"/">>)>>],
      [tree |-> TreeSmall,   args |-> <<JoinWith(<<N_a, <<".", ".">>, N_b, <<"*">>>>, <<"/">>)>>] }

InitWalk ==
    /\ \/ \E P \in Patterns(MaxSegments) :
            \E f \in { [tree |-> TreeSmall, cwd |-> <<>>,    maxPathLength |-> MaxPath],
                       [tree |-> TreeSmall, cwd |-> <<N_a>>, maxPathLength |-> MaxPath],
                       [tree |-> TreeSmall, cwd |-> <<>>,    maxPathLength |-> SmallPath] } :
               fs = f /\ args = <<P>>
       \/ \E x \in ExampleWalks :
            /\ fs = [tree |-> x.tree, cwd |-> <<>>, maxPathLength |-> MaxPath]
            /\ args = x.args
    /\ NewPathMatcher
    /\ given = <<>>
    /\ calls = <<>>
    /\ results = <<>>

SpecWalk == InitWalk /\ [][NextWalk]_vars

-----------------------------------------------------------------------------
(* What the walk is expected to report *)

JoinPath(names) == JoinWith(names, <<c_slash>>)

\* The path of an entry relative to the current directory
Rel(e) == SubSeq(e.path, Len(fs.cwd) + 1, Len(e.path))

\* The entries of the tree that lie below the current directory
BelowCwd == { i \in 1..Len(fs.tree) : IsPrefix(fs.cwd, fs.tree[i].path) /\ fs.tree[i].path # fs.cwd }

\* Every path of the tree can be composed in the path buffer, with its
\* terminator, and every directory path with the separator and the '*' of a
\* listing besides
PathsFit ==
    \A i \in 1..Len(fs.tree) :
        Len(JoinPath(fs.tree[i].path)) + (IF fs.tree[i].dir THEN 2 ELSE 1) <= fs.maxPathLength

\* The events of the current Match call
CallEvents(kind) == { i \in 1..Len(log) : log[i].kind = kind /\ log[i].call = call }

Cancelled == \E i \in CallEvents("report") : ~log[i].ret

Finished == (pc = "ready") /\ (call >= 1)

\* Event i reports entry j
Reports(i, j) ==
    /\ LowerStr(log[i].path) = LowerStr(JoinPath(Rel(fs.tree[j])))
    /\ log[i].dir = fs.tree[j].dir

\* The reports of the current call are entries of expected, each reported at
\* most once, and all of them once the call has returned without cancellation
ReportsExactly(expected) ==
    /\ \A i \in CallEvents("report") : \E j \in expected : Reports(i, j)
    /\ \A i, k \in CallEvents("report") : (log[i].path = log[k].path) => (i = k)
    /\ (Finished /\ ~Cancelled) =>
           \A j \in expected : \E i \in CallEvents("report") : Reports(i, j)

IsDots(seg) == seg \in { <<".">>, <<".", ".">> }

-----------------------------------------------------------------------------
(* C1 *)

\* C1: within one Match call, once the callback has returned false it is not
\* invoked again and no further directory is listed
C1_CancellationStopsTheWalk ==
    \A i \in 1..Len(log) :
        (log[i].kind = "report" /\ ~log[i].ret)
            => \A j \in (i + 1)..Len(log) : log[j].call # log[i].call

\* Cancellation does stop the loop of the activation that made the report
C1_CancellationStopsTheDirectory ==
    \A i \in 1..Len(log) :
        (log[i].kind = "report" /\ ~log[i].ret)
            => \A j \in (i + 1)..Len(log) :
                   (log[j].call = log[i].call /\ log[j].kind = "report")
                       => Front(SplitPath(log[j].path, <<>>)) # Front(SplitPath(log[i].path, <<>>))

-----------------------------------------------------------------------------
(* C2 *)

\* A pattern of literal, '?' and '*' segments, relative to the current directory
SimplePattern(P) ==
    /\ P # <<>>
    /\ ~isSlash(P[1])
    /\ ~isSlash(Last(P))
    /\ ~HasEllipsis(P)
    /\ \A i \in 1..Len(P) : P[i] # ":"
    /\ \A i \in 1..Len(Components(P, <<>>)) : ~IsDots(Components(P, <<>>)[i])

\* The entries with one component per segment, each component accepted by
\* wildComp for its segment (every entry above a tree entry is a directory)
SegmentwiseMatches(segs) ==
    { j \in BelowCwd :
        /\ Len(Rel(fs.tree[j])) = Len(segs)
        /\ \A k \in 1..Len(segs) : PMatcher_wildComp(segs[k], Rel(fs.tree[j])[k])
        /\ m_dirsOnly => fs.tree[j].dir }

-----------------------------------------------------------------------------
(* C3 *)

Groomed(P) == CopyGroomedPattern(P, FALSE)

GroomedSegments(P) == Components(Groomed(P).pattern, <<>>)

\* The index of the first segment that holds an ellipsis
FirstEllipsisSegment(segs) ==
    CHOOSE k \in 1..Len(segs) :
        /\ HasEllipsis(segs[k])
        /\ \A j \in 1..(k - 1) : ~HasEllipsis(segs[j])

\* A pattern, relative to the current directory, whose walk reaches a segment
\* with an ellipsis through literal, '?' and '*' segments
EllipsisPattern(P) ==
    /\ Groomed(P).fault \in {"none", "assert"}
    /\ Groomed(P).pattern # <<>>
    /\ ~isSlash(Groomed(P).pattern[1])
    /\ HasEllipsis(Groomed(P).pattern)
    /\ \A i \in 1..Len(P) : P[i] # ":"
    /\ \A j \in 1..(FirstEllipsisSegment(GroomedSegments(P)) - 1) : ~IsDots(GroomedSegments(P)[j])

\* The pattern that remains at the first segment with an ellipsis
RemainingPattern(segs) == JoinPath(SubSeq(segs, FirstEllipsisSegment(segs), Len(segs)))

\* The text before the ellipsis in its segment
RECURSIVE EllipsisPrefix(_)
EllipsisPrefix(seg) ==
    IF isEllipsis(seg) THEN <<>> ELSE <<Head(seg)>> \o EllipsisPrefix(Tail(seg))

\* Entry j lies below a directory D that the walk reaches at the first segment
\* with an ellipsis
BelowReached(segs, j) ==
    LET k == FirstEllipsisSegment(segs)
    IN  /\ j \in BelowCwd
        /\ Len(Rel(fs.tree[j])) >= k
        /\ \A n \in 1..(k - 1) : PMatcher_wildComp(segs[n], Rel(fs.tree[j])[n])

\* The descendants of such a D whose path relative to D pathMatch accepts
DeepMatches(segs) ==
    LET k == FirstEllipsisSegment(segs)
    IN  { j \in BelowCwd :
            /\ BelowReached(segs, j)
            /\ PMatcher_pathMatch(RemainingPattern(segs),
                                  JoinPath(SubSeq(Rel(fs.tree[j]), k, Len(Rel(fs.tree[j])))))
            /\ m_dirsOnly => fs.tree[j].dir }

\* The directories below such a D that the fetch visits: those whose first
\* component below D passes the prefix filter
Visited(segs) ==
    LET k == FirstEllipsisSegment(segs)
    IN  { j \in BelowCwd :
            /\ BelowReached(segs, j)
            /\ fs.tree[j].dir
            /\ PMatcher_wildComp(Append(EllipsisPrefix(segs[k]), "*"), Rel(fs.tree[j])[k]) }

-----------------------------------------------------------------------------
(* C4 *)

EndsWithSeparator(P) == P # <<>> /\ isSlash(Last(P))

\* C4: if the raw pattern ends with one or more separators, every entry
\* delivered to the callback during that Match call is a directory, and neither
\* MatchDir nor FetchAll is ever called for an entry that is not a directory
C4_TrailingSeparatorReportsDirectoriesOnly ==
    /\ (call >= 1 /\ EndsWithSeparator(args[call]))
          => \A i \in CallEvents("report") : log[i].dir
    /\ \A n \in 1..Len(stack) : stack[n].isDirectory

\* C4 for a raw pattern that ends with exactly one separator
C4_SingleTrailingSeparator ==
    (call >= 1 /\ EndsWithSeparator(args[call]) /\ ~EndsWithSeparator(Front(args[call])))
        => \A i \in CallEvents("report") : log[i].dir

C4_Witness ==
    /\ Finished
    /\ fs.tree = TreeSmall
    /\ fs.cwd = <<>>
    /\ args = <<<<"*", "/">>>>
    /\ \A i \in 1..Len(log) : log[i].ret
    /\ { log[i].path : i \in CallEvents("report") } = { N_a, N_b }

-----------------------------------------------------------------------------
(* SpecEmpty: PMatcher::pathMatch on a wildcard that is immediately followed
   by separators.  Each case makes four calls:
     1. pathMatch(rest, path)
     2. pathMatch(pre wild seps rest, pre path)
     3. pathMatch(pre wild ? seps rest, pre path)
     4. pathMatch(pre wild ? seps rest, pre x / path)                       *)

N_foo == <<"f", "o", "o">>

EmptyExamples ==
    { [pre |-> <<>>, wild |-> Ellipsis, seps |-> <<"/">>, rest |-> N_foo, path |-> N_foo],
      [pre |-> <<>>, wild |-> <<"*">>, seps |-> <<"/">>, rest |-> N_foo, path |-> N_foo],
      [pre |-> <<"a", "/">>, wild |-> Ellipsis, seps |-> <<"/">>, rest |-> N_b, path |-> N_b] }

InitEmpty ==
    /\ \/ \E pre \in {<<>>, <<"a", "/">>},
             wild \in {<<"*">>, Ellipsis},
             seps \in {<<"/">>, <<"\\">>, <<"\\", "/">>},
             rest \in Strs({"a", "?", "*", "/"}, MaxAffixLen),
             path \in Strs({"a", "b", "/"}, MaxStrLen) :
               given = [pre |-> pre, wild |-> wild, seps |-> seps, rest |-> rest, path |-> path]
       \/ given \in EmptyExamples
    /\ calls = << [fn |-> "PMatcher::pathMatch", pattern |-> given.rest, string |-> given.path],
                  [fn |-> "PMatcher::pathMatch",
                   pattern |-> given.pre \o given.wild \o given.seps \o given.rest,
                   string |-> given.pre \o given.path],
                  [fn |-> "PMatcher::pathMatch",
                   pattern |-> given.pre \o given.wild \o <<"?">> \o given.seps \o given.rest,
                   string |-> given.pre \o given.path],
                  [fn |-> "PMatcher::pathMatch",
                   pattern |-> given.pre \o given.wild \o <<"?">> \o given.seps \o given.rest,
                   string |-> given.pre \o <<"x", "/">> \o given.path] >>
    /\ results = <<>>
    /\ NoWalk

SpecEmpty == InitEmpty /\ [][CallPathMatchV0]_vars

HasSlash(s) == \E i \in 1..Len(s) : isSlash(s[i])

\* C11: in pathMatch a wildcard ('*' or '...') immediately followed by separators
\* can match the empty string together with those separators: whenever the rest of
\* the pattern matches the rest of the path, so does wildcard + separators + rest
\* ('.../foo' and '*/foo' match 'foo', 'a/.../b' matches 'a/b').  A '?' after the
\* wildcard suppresses this: wildcard + '?' + separators + rest matches no path
\* without a separator ('...?/foo' rejects 'foo'), and it matches a character, a
\* separator and a path that the rest matches ('...?/foo' matches 'x/foo').
C11_WildcardMatchesEmptySubdirectory ==
    /\ (Len(results) >= 2 /\ results[1]) => results[2]
    /\ (Len(results) >= 3 /\ ~HasSlash(given.path)) => ~results[3]
    /\ (Len(results) = 4 /\ results[1] /\ Last(given.seps) = "/") => results[4]

\* C11 witness: '.../foo' has matched 'foo', '...?/foo' has rejected 'foo' and
\* matched 'x/foo'
C11_Witness ==
    /\ given.pre = <<>>
    /\ given.wild = Ellipsis
    /\ given.seps = <<"/">>
    /\ given.rest = N_foo
    /\ given.path = N_foo
    /\ results = <<TRUE, TRUE, FALSE, TRUE>>

-----------------------------------------------------------------------------
(* getNormalizedPattern and the pattern handling of PathMatcher::match
   (iterator version).  A wstring is a sequence of characters, a
   vector<wstring> a sequence of such sequences.                            *)

\* const auto c_updir = L'^';  (caret)
c_updir == "^"

\* const auto c_ellipsis = L'…';  (horizontal ellipsis, one character)
c_ellipsis == "U+2026"

\* The raw pattern with standardized characters: '\' becomes '/', "**" and "..."
\* become c_ellipsis, and ".." not followed by '.' becomes c_updir.
RECURSIVE standardizedPattern(_)
standardizedPattern(src) ==
    IF src = <<>> THEN <<>>
    ELSE IF src[1] = "\\" THEN <<"/">> \o standardizedPattern(Tail(src))
    ELSE IF src[1] = "*" /\ Len(src) >= 2 /\ src[2] = "*"
    THEN <<c_ellipsis>> \o standardizedPattern(SubSeq(src, 3, Len(src)))
    ELSE IF src[1] = "." /\ Len(src) >= 2 /\ src[2] = "."
    THEN IF Len(src) = 2 \/ src[3] # "."
         THEN <<c_updir>> \o standardizedPattern(SubSeq(src, 3, Len(src)))
         ELSE <<c_ellipsis>> \o standardizedPattern(SubSeq(src, 4, Len(src)))
    ELSE <<src[1]>> \o standardizedPattern(Tail(src))

\* for (auto c : standardizedPattern)
\*     if (c != lastChar || (c != L'/' && c != c_ellipsis)) { normalizedPattern += c; lastChar = c; }
RECURSIVE normalizedPattern(_, _)
normalizedPattern(standardized, lastChar) ==
    IF standardized = <<>> THEN <<>>
    ELSE LET c == Head(standardized)
         IN  IF c # lastChar \/ (c # "/" /\ c # c_ellipsis)
             THEN <<c>> \o normalizedPattern(Tail(standardized), c)
             ELSE normalizedPattern(Tail(standardized), lastChar)

\* while (patternIt != cend() && *patternIt == L'/') ++patternIt;
RECURSIVE SkipSlashesIt(_)
SkipSlashesIt(patternIt) ==
    IF patternIt # <<>> /\ Head(patternIt) = "/" THEN SkipSlashesIt(Tail(patternIt)) ELSE patternIt

\* while (patternIt != cend() && *patternIt != L'/') ++patternIt;  (yields the length passed)
RECURSIVE SubpathLength(_)
SubpathLength(patternIt) ==
    IF patternIt # <<>> /\ Head(patternIt) # "/" THEN 1 + SubpathLength(Tail(patternIt)) ELSE 0

\* The loop that pushes the sub-path patterns between sequences of slashes
RECURSIVE SubpathPatterns(_)
SubpathPatterns(patternIt) ==
    IF patternIt = <<>> THEN <<>>
    ELSE LET n == SubpathLength(patternIt)
         IN  <<SubSeq(patternIt, 1, n)>>
                 \o SubpathPatterns(SkipSlashesIt(SubSeq(patternIt, n + 1, Len(patternIt))))

\* Mutant of LeadingSlash: a leading slash sequence leaves no first element
LeadingSlash_Dropped(normalized) == <<>>

\* if (patternIt[0] == L'/') patterns.push_back(L"/");
LeadingSlash(normalized) == IF normalized[1] = "/" THEN << <<"/">> >> ELSE <<>>

\* Mutant of EraseDots: single dot subdirectories are kept
EraseDots_Nothing(patterns) == patterns

\* erase_if(patterns, [](wstring& s){ return s == L"."; });
RECURSIVE EraseDots(_)
EraseDots(patterns) ==
    IF patterns = <<>> THEN <<>>
    ELSE IF Head(patterns) = <<".">> THEN EraseDots(Tail(patterns))
    ELSE <<Head(patterns)>> \o EraseDots(Tail(patterns))

\* Mutant of CollapseUpdirs: an updir is erased against a preceding updir as well
RECURSIVE CollapseUpdirs_AgainstUpdir(_, _)
CollapseUpdirs_AgainstUpdir(patterns, subpattern) ==
    IF subpattern > Len(patterns) \/ subpattern + 1 > Len(patterns) THEN patterns
    ELSE IF \/ patterns[subpattern] = <<"/">>
            \/ patterns[subpattern + 1] # <<c_updir>>
    THEN CollapseUpdirs_AgainstUpdir(patterns, subpattern + 1)
    ELSE CollapseUpdirs_AgainstUpdir(SubSeq(patterns, 1, subpattern - 1)
                            \o SubSeq(patterns, subpattern + 2, Len(patterns)), 1)

\* Mutant of CollapseUpdirs: the scan does not start over after an erase
RECURSIVE CollapseUpdirs_NoRestart(_, _)
CollapseUpdirs_NoRestart(patterns, subpattern) ==
    IF subpattern > Len(patterns) \/ subpattern + 1 > Len(patterns) THEN patterns
    ELSE IF \/ patterns[subpattern] = <<c_updir>>
            \/ patterns[subpattern] = <<"/">>
            \/ patterns[subpattern + 1] # <<c_updir>>
    THEN CollapseUpdirs_NoRestart(patterns, subpattern + 1)
    ELSE CollapseUpdirs_NoRestart(SubSeq(patterns, 1, subpattern - 1)
                            \o SubSeq(patterns, subpattern + 2, Len(patterns)), subpattern)

\* Collapse internal updir subdirectories: a sub-path pattern that is neither
\* c_updir nor "/" and is followed by c_updir is erased together with it, and
\* the scan starts over.  subpattern is the iterator's index.
RECURSIVE CollapseUpdirs(_, _)
CollapseUpdirs(patterns, subpattern) ==
    IF subpattern > Len(patterns) \/ subpattern + 1 > Len(patterns) THEN patterns
    ELSE IF \/ patterns[subpattern] = <<c_updir>>
            \/ patterns[subpattern] = <<"/">>
            \/ patterns[subpattern + 1] # <<c_updir>>
    THEN CollapseUpdirs(patterns, subpattern + 1)
    ELSE CollapseUpdirs(SubSeq(patterns, 1, subpattern - 1)
                            \o SubSeq(patterns, subpattern + 2, Len(patterns)), 1)

getNormalizedPattern(patternSource) ==
    IF patternSource = <<>> THEN <<>>
    ELSE LET normalized == normalizedPattern(standardizedPattern(patternSource), NUL)
             patterns   == LeadingSlash(normalized) \o SubpathPatterns(SkipSlashesIt(normalized))
         IN  CollapseUpdirs(EraseDots(patterns), 1)

\* Mutant of DirsOnlyOf: the flag is taken from the first character
DirsOnlyOf_Front(path_pattern) == isSlash(path_pattern[1])

\* m_dirsOnly = isSlash(path_pattern.back());
DirsOnlyOf(path_pattern) == isSlash(path_pattern[Len(path_pattern)])

\* PathMatcher::match up to its call of matchDir, for a non-null callback: the
\* directories-only flag, the pattern vector and the value returned.  back() of
\* an empty string is undefined: the flag is then whatever undefinedFlag is.
PathMatch_match(path_pattern, undefinedFlag) ==
    LET patternVec == getNormalizedPattern(path_pattern)
    IN  [ m_dirsOnly |-> IF path_pattern = <<>> THEN undefinedFlag ELSE DirsOnlyOf(path_pattern),
          patternVec |-> patternVec,
          returns    |-> patternVec # <<>> ]

CallGetNormalizedPattern ==
    /\ Len(results) < Len(calls)
    /\ NextCall.fn = "getNormalizedPattern"
    /\ results' = Append(results, getNormalizedPattern(NextCall.pattern))
    /\ UNCHANGED <<given, calls, walkVars>>

CallMatch ==
    /\ Len(results) < Len(calls)
    /\ NextCall.fn = "PathMatch::PathMatcher::match"
    /\ \E undefinedFlag \in BOOLEAN :
          results' = Append(results, PathMatch_match(NextCall.pattern, undefinedFlag))
    /\ UNCHANGED <<given, calls, walkVars>>

NextNormalizer == CallGetNormalizedPattern \/ CallMatch

-----------------------------------------------------------------------------
(* SpecNorm: the pattern normalizer on raw patterns.  Each case makes four calls:
     1. getNormalizedPattern(pattern)
     2. PathMatcher::match(pattern)
     3. getNormalizedPattern(the sub-path patterns of call 1 joined by '/')
     4. getNormalizedPattern(pattern without its trailing separators)        *)

MaxRawLen == 5
MaxParts == 4

N_c == <<"c">>
N_x == <<"x">>
N_y == <<"y">>
N_z == <<"z">>
UpDir == <<".", ".">>
Dot == <<".">>

\* The separator-joined spelling of a list of segments
Slashed(segs) == JoinWith(segs, <<"/">>)

P_a_b_up_c == Slashed(<<N_a, N_b, UpDir, N_c>>)
P_a_b_c_up_up_x_y_z == Slashed(<<N_a, N_b, N_c, UpDir, UpDir, N_x, N_y, N_z>>)
P_up_up_x == Slashed(<<UpDir, UpDir, N_x>>)
P_a_b_up4_x_y_z == Slashed(<<N_a, N_b, UpDir, UpDir, UpDir, UpDir, N_x, N_y, N_z>>)
P_a_e_up_b == Slashed(<<N_a, Ellipsis, UpDir, N_b>>)
P_a_s_up_b == Slashed(<<N_a, <<"*">>, UpDir, N_b>>)
P_a_q_up_b == Slashed(<<N_a, <<"a", "?">>, UpDir, N_b>>)
P_a_e_b == Slashed(<<N_a, Ellipsis, N_b>>)
P_a_e_da_e_b == Slashed(<<N_a, Ellipsis, DoubleAsterisk, Ellipsis, N_b>>)
P_a_run_b == Slashed(<<N_a, DoubleAsterisk \o Ellipsis \o Ellipsis \o DoubleAsterisk \o DoubleAsterisk, N_b>>)
P_foo_s == N_foo \o <<"/">>
P_foo_ssss == N_foo \o <<"/", "/", "/", "/">>
P_a_sep5_b_sep2_c == N_a \o <<"/", "/", "\\", "\\", "/">> \o N_b \o <<"/", "/">> \o N_c
P_a_d_b_ddd_c == Slashed(<<N_a, Dot, N_b, Dot, Dot, Dot, N_c>>)

NormExamples ==
    { P_a_b_up_c, P_a_b_c_up_up_x_y_z, P_up_up_x, P_a_b_up4_x_y_z,
      P_a_e_up_b, P_a_s_up_b, P_a_q_up_b,
      P_a_e_b, P_a_e_da_e_b, P_a_run_b,
      N_foo, P_foo_s, P_foo_ssss,
      P_a_sep5_b_sep2_c, P_a_d_b_ddd_c }

NormParts == { N_a, N_b, UpDir, Dot, Ellipsis, DoubleAsterisk, <<"*">> }

\* s without its trailing separators
RECURSIVE StripTrailingSlashes(_)
StripTrailingSlashes(s) ==
    IF s # <<>> /\ isSlash(Last(s)) THEN StripTrailingSlashes(Front(s)) ELSE s

\* The sub-path patterns written back as one pattern string
Render(patterns) ==
    IF patterns # <<>> /\ Head(patterns) = <<"/">>
    THEN <<"/">> \o Slashed(Tail(patterns))
    ELSE Slashed(patterns)

InitNorm ==
    /\ \/ \E P \in Strs({"a", ".", "*", "/", "\\"}, MaxRawLen) : given = [pattern |-> P]
       \/ \E k \in 1..MaxParts : \E segs \in [1..k -> NormParts] :
          \E lead \in {<<>>, <<"/">>}, trail \in {<<>>, <<"/">>} :
             given = [pattern |-> lead \o Slashed(segs) \o trail]
       \/ \E P \in NormExamples : given = [pattern |-> P]
    /\ calls = << [fn |-> "getNormalizedPattern", pattern |-> given.pattern],
                  [fn |-> "PathMatch::PathMatcher::match", pattern |-> given.pattern],
                  [fn |-> "getNormalizedPattern",
                   pattern |-> Render(getNormalizedPattern(given.pattern))],
                  [fn |-> "getNormalizedPattern",
                   pattern |-> StripTrailingSlashes(given.pattern)] >>
    /\ results = <<>>
    /\ NoWalk

SpecNorm == InitNorm /\ [][NextNormalizer]_vars

(* Reference reading of a raw pattern *)

\* The components of the raw pattern between separators, without the empty ones
\* and without the '.' ones
RawParts(P) == EraseDots(SelectSeq(Components(P, <<>>), LAMBDA c : c # <<>>))

\* An ordinary segment: no wildcard and no dot
OrdinaryPart(seg) ==
    seg # <<>> /\ \A i \in 1..Len(seg) : seg[i] \notin {".", "*", "?", c_updir, c_ellipsis}

\* A wildcard segment of the result: it holds '?', '*' or the multi-segment wildcard
WildPart(seg) == \E i \in 1..Len(seg) : seg[i] \in {"?", "*", c_ellipsis}

\* Each '..' removes the nearest preceding ordinary segment still kept;
\* without one it stays, as the parent segment
RECURSIVE ResolveParents(_, _)
ResolveParents(parts, kept) ==
    IF parts = <<>> THEN kept
    ELSE IF Head(parts) = UpDir
    THEN IF kept # <<>> /\ OrdinaryPart(Last(kept))
         THEN ResolveParents(Tail(parts), Front(kept))
         ELSE ResolveParents(Tail(parts), Append(kept, <<c_updir>>))
    ELSE ResolveParents(Tail(parts), Append(kept, Head(parts)))

RootPart(P) == IF P # <<>> /\ isSlash(Head(P)) THEN << <<"/">> >> ELSE <<>>

-----------------------------------------------------------------------------
(* Claims about the pattern normalizer *)

\* A wildcard segment of the raw pattern: it holds '?', '*' or "..."
RawWildPart(seg) == (\E i \in 1..Len(seg) : seg[i] \in {"?", "*"}) \/ HasEllipsis(seg)

\* C12: getNormalizedPattern resolves each '..' segment against the nearest
\* preceding ordinary segment that is still unresolved by removing both, and
\* retains a '..' that has no such predecessor: for every raw pattern made of
\* ordinary segments and '..' segments the result is the root marker, if any,
\* followed by the segments left after that resolution, and the four named
\* patterns come out as stated.
C12_ParentSegmentsResolve ==
    (Len(results) >= 1) =>
        /\ (\A i \in 1..Len(RawParts(given.pattern)) :
               RawParts(given.pattern)[i] = UpDir \/ OrdinaryPart(RawParts(given.pattern)[i]))
             => results[1] = RootPart(given.pattern) \o ResolveParents(RawParts(given.pattern), <<>>)
        /\ given.pattern = P_a_b_up_c => results[1] = <<N_a, N_c>>
        /\ given.pattern = P_a_b_c_up_up_x_y_z => results[1] = <<N_a, N_x, N_y, N_z>>
        /\ given.pattern = P_up_up_x => results[1] = << <<c_updir>>, <<c_updir>>, N_x >>
        /\ given.pattern = P_a_b_up4_x_y_z
             => results[1] = << <<c_updir>>, <<c_updir>>, N_x, N_y, N_z >>

\* C12 witness: 'a/b/../../../../x/y/z' has been normalized to two parent
\* segments followed by x, y, z
C12_Witness ==
    /\ given.pattern = P_a_b_up4_x_y_z
    /\ Len(results) >= 1
    /\ results[1] = << <<c_updir>>, <<c_updir>>, N_x, N_y, N_z >>

\* C13: pattern normalization never resolves a '..' segment against a wildcard
\* segment: when the segment immediately before a '..' of the raw pattern holds
\* '?', '*' or a multi-segment wildcard, the result holds a wildcard segment
\* immediately followed by the retained parent segment.
C13_NoResolutionAgainstWildcards ==
    (/\ Len(results) >= 1
     /\ \E i \in 1..(Len(RawParts(given.pattern)) - 1) :
           /\ RawWildPart(RawParts(given.pattern)[i])
           /\ RawParts(given.pattern)[i + 1] = UpDir)
        => \E j \in 1..(Len(results[1]) - 1) :
              WildPart(results[1][j]) /\ results[1][j + 1] = <<c_updir>>

\* C14: the segment list returned by getNormalizedPattern never contains two
\* consecutive multi-segment-wildcard segments, and 'a/.../**/.../b' and
\* 'a/**......****/b' yield the segment list of 'a/.../b'.
C14_MultiWildcardsCollapse ==
    (Len(results) >= 1) =>
        /\ \A j \in 1..(Len(results[1]) - 1) :
              ~(results[1][j] = <<c_ellipsis>> /\ results[1][j + 1] = <<c_ellipsis>>)
        /\ given.pattern \in {P_a_e_b, P_a_e_da_e_b, P_a_run_b}
              => results[1] = <<N_a, <<c_ellipsis>>, N_b>>

\* C14 for multi-segment wildcards written back to back: they become one
C14_AdjacentSpellingsCollapse ==
    (Len(results) >= 1) =>
        /\ \A j \in 1..Len(results[1]) : \A i \in 1..(Len(results[1][j]) - 1) :
              ~(results[1][j][i] = c_ellipsis /\ results[1][j][i + 1] = c_ellipsis)
        /\ given.pattern \in {P_a_e_b, P_a_run_b} => results[1] = <<N_a, <<c_ellipsis>>, N_b>>

\* C15: for a raw pattern that contains at least one non-separator character,
\* match sets the directories-only flag to true exactly when the pattern ends in
\* a separator of either kind, and the trailing run of separators contributes no
\* segment: the pattern vector is that of the pattern without the run.  'foo/'
\* and 'foo////' yield [foo] with the flag true, 'foo' yields [foo] with it false.
C15_TrailingSeparatorSetsDirsOnly ==
    (Len(results) = 4 /\ StripTrailingSlashes(given.pattern) # <<>>) =>
        /\ results[2].m_dirsOnly = (Last(given.pattern) \in {"/", "\\"})
        /\ results[2].patternVec = results[4]
        /\ given.pattern \in {P_foo_s, P_foo_ssss}
              => results[2].patternVec = <<N_foo>> /\ results[2].m_dirsOnly
        /\ given.pattern = N_foo => results[2].patternVec = <<N_foo>> /\ ~results[2].m_dirsOnly

\* C15 witness: match of 'foo////' has set the flag and produced [foo]
C15_Witness ==
    /\ given.pattern = P_foo_ssss
    /\ Len(results) = 4
    /\ results[2].m_dirsOnly
    /\ results[2].patternVec = <<N_foo>>

\* C16: no segment returned by getNormalizedPattern is empty and none equals '.';
\* 'a', five mixed separators, 'b', two separators, 'c' yields [a, b, c], and so
\* does 'a/./b/./././c'.
C16_NoEmptyAndNoDotSegments ==
    (Len(results) >= 1) =>
        /\ \A j \in 1..Len(results[1]) : results[1][j] # <<>> /\ results[1][j] # Dot
        /\ given.pattern \in {P_a_sep5_b_sep2_c, P_a_d_b_ddd_c} => results[1] = <<N_a, N_b, N_c>>

\* C16 witness: 'a/./b/./././c' has been normalized to [a, b, c]
C16_Witness ==
    /\ given.pattern = P_a_d_b_ddd_c
    /\ Len(results) >= 1
    /\ results[1] = <<N_a, N_b, N_c>>

\* A segment made of separators only
SeparatorPart(seg) == seg # <<>> /\ \A i \in 1..Len(seg) : isSlash(seg[i])

-----------------------------------------------------------------------------
(* CopyGroomedPattern and Match of the revision that fixed the crash on
   patterns consisting only of slashes (namespace PathMatch, version 0.1.1) *)

\* while (isSlash(src[1])) ++src;   (src[0] is known to be a slash)
RECURSIVE LastSlashOfSeries(_)
LastSlashOfSeries(src) ==
    IF isSlash(At(src, 1)) THEN LastSlashOfSeries(Tail(src)) ELSE src

\* The copy loop of this revision: the slash case first scans to the last slash
\* of a series of slashes.  fault "overread" as in CopyGroomedLoop.
RECURSIVE PathMatch_CopyGroomedLoop(_, _, _)
PathMatch_CopyGroomedLoop(src, dest, dirsOnly) ==
    IF Ch(src) = NUL
    THEN [pattern |-> dest, dirsOnly |-> dirsOnly, fault |-> "none"]
    ELSE IF (At(src, 0) = ".") /\ ((At(src, 1) = NUL) \/ isSlash(At(src, 1)))
    THEN LET atStart == (dest = <<>>)
             src2    == SkipSlashes(Tail(src))
         IN  IF atStart
             THEN IF Ch(src2) = NUL
                  THEN PathMatch_CopyGroomedLoop(src2, Append(dest, "."), TRUE)
                  ELSE PathMatch_CopyGroomedLoop(src2, dest, dirsOnly)
             ELSE IF Ch(src2) = NUL
                  THEN PathMatch_CopyGroomedLoop(src2, Front(dest), TRUE)
                  ELSE PathMatch_CopyGroomedLoop(src2, dest, dirsOnly)
    ELSE IF isSlash(Ch(src))
    THEN LET last == LastSlashOfSeries(src)
         IN  IF At(last, 1) = NUL
             THEN PathMatch_CopyGroomedLoop(Tail(last), dest, TRUE)
             ELSE PathMatch_CopyGroomedLoop(SkipSlashes(Tail(last)), Append(dest, c_slash), dirsOnly)
    ELSE IF isUpDir(src)
    THEN IF At(src, 2) = NUL
         THEN [pattern |-> dest, dirsOnly |-> dirsOnly, fault |-> "overread"]
         ELSE LET src2   == SkipSlashes(Adv(src, 3))
                  parent == ParentOf(dest)
              IN  IF parent >= 0
                  THEN PathMatch_CopyGroomedLoop(src2, SubSeq(dest, 1, parent), dirsOnly)
                  ELSE PathMatch_CopyGroomedLoop(src2, dest \o <<".", ".", c_slash>>, dirsOnly)
    ELSE LET c == CopySubpath(src, dest)
         IN  PathMatch_CopyGroomedLoop(c.src, c.dest, dirsOnly)

\* if (pastAnyLeadingSlashes) assert (!isSlash(dest[-1]));
PathMatch_ClosingAssert(pastAnyLeadingSlashes, dest) ==
    IF ~pastAnyLeadingSlashes THEN "none"
    ELSE IF dest = <<>> THEN "underread"
    ELSE IF isSlash(Last(dest)) THEN "assert"
    ELSE "none"

\* The groomed pattern, the new value of m_dirsOnly and the fault, as for
\* CopyGroomedPattern
PathMatch_CopyGroomedPattern(pattern, dirsOnly) ==
    LET lead == LeadingSlashes(pattern)
        src  == Adv(pattern, Len(lead))
        r    == PathMatch_CopyGroomedLoop(src, lead, dirsOnly)
    IN  IF r.fault # "none" THEN r
        ELSE [r EXCEPT !.fault = PathMatch_ClosingAssert(Ch(src) # NUL, r.pattern)]

\* The driver calls Match of this revision for the next pattern argument.
\* asserts: the build keeps assert().  handlerReturns: the invalid-parameter
\* handler of wcsncpy_s returns instead of ending the program; FAILED() of the
\* positive error value is false, so Match then goes on with an emptied m_path
\* and a pathend beyond the buffer.
PathMatch_Match ==
    /\ pc = "ready"
    /\ call < Len(args)
    /\ \E asserts \in BOOLEAN, handlerReturns \in BOOLEAN :
         LET groomed == PathMatch_CopyGroomedPattern(args[call + 1], m_dirsOnly)
             root    == RootScan(groomed.pattern, 0, 0, 0)
             rootlen == IF root.rootend = 0 THEN 0 ELSE root.rootend + 1
             wild    == Adv(groomed.pattern, root.wildstart)
             retval  == IF rootlen = 0 THEN "S_OK"
                        ELSE wcsncpy_s(fs.maxPathLength + 1, SubSeq(groomed.pattern, 1, rootlen))
         IN  /\ call' = call + 1
             /\ m_pattern' = groomed.pattern
             /\ m_dirsOnly' = groomed.dirsOnly
             /\ IF groomed.fault = "overread"
                THEN pc' = "undefined" /\ UNCHANGED <<m_path, stack, oob>>
                ELSE IF groomed.fault \in {"assert", "underread"} /\ asserts
                THEN pc' = "aborted" /\ UNCHANGED <<m_path, stack, oob>>
                ELSE IF retval # "S_OK" /\ ~handlerReturns
                THEN pc' = "aborted" /\ UNCHANGED <<m_path, stack, oob>>
                ELSE IF retval # "S_OK" /\ FAILED(errno_t(retval))
                THEN pc' = "ready" /\ m_path' = <<>> /\ UNCHANGED <<stack, oob>>
                ELSE IF retval # "S_OK" /\ wild # <<>>
                THEN pc' = "undefined" /\ m_path' = <<>> /\ oob' = TRUE /\ UNCHANGED stack
                ELSE /\ pc' = "walking"
                     /\ m_path' = IF retval = "S_OK" THEN SubSeq(groomed.pattern, 1, rootlen)
                                  ELSE <<>>
                     /\ oob' = (oob \/ retval # "S_OK")
                     /\ stack' = << Frame("MatchDir", rootlen, wild, nullptr, TRUE) >>
    /\ UNCHANGED <<fs, args, m_ellipsisPattern, m_ellipsisPath, log, find_handles, pureVars>>

\* The walk of a pattern of literal segments, which this revision makes as the
\* one of namespace PMatcher does; the driver also normalizes the pattern
NextSeparators ==
    \/ PathMatch_Match
    \/ MatchDir
    \/ MatchDirNext
    \/ MatchReturns
    \/ CallGetNormalizedPattern

-----------------------------------------------------------------------------
(* SpecSeparators: Match on empty patterns, patterns of separators only and
   patterns of literal segments *)

MaxSeps == 5

InitSeparators ==
    /\ \E P \in Strs({"/", "\\", "a"}, MaxSeps) :
         \E f \in { [tree |-> TreeSmall, cwd |-> <<>>, maxPathLength |-> MaxPath],
                    [tree |-> TreeSmall, cwd |-> <<>>, maxPathLength |-> SmallPath] } :
            fs = f /\ args = <<P>> /\ given = [pattern |-> P]
    /\ NewPathMatcher
    /\ calls = << [fn |-> "getNormalizedPattern", pattern |-> given.pattern] >>
    /\ results = <<>>

SpecSeparators == InitSeparators /\ [][NextSeparators]_vars

SeparatorsOnly(P) == \A i \in 1..Len(P) : isSlash(P[i])

\* C19: for an empty raw pattern, and for a raw pattern consisting only of
\* separators, a Match call invokes the callback zero times, lists no directory
\* and completes without an error or assertion failure; normalization of the
\* empty pattern yields the empty segment list.
C19_EmptyPatternReportsNothing ==
    /\ \A c \in 1..call :
          SeparatorsOnly(args[c]) =>
              /\ \A i \in 1..Len(log) : log[i].call # c
              /\ (call = c) => (pc \in {"walking", "ready"} /\ ~oob)
    /\ (Len(results) = 1 /\ given.pattern = <<>>) => results[1] = <<>>

\* C19 for the patterns whose separators fit the path buffer
C19_SeparatorsWithinTheBuffer ==
    /\ \A c \in 1..call :
          (SeparatorsOnly(args[c]) /\ Len(args[c]) <= fs.maxPathLength) =>
              /\ \A i \in 1..Len(log) : log[i].call # c
              /\ (call = c) => (pc \in {"walking", "ready"} /\ ~oob)
    /\ (Len(results) = 1 /\ given.pattern = <<>>) => results[1] = <<>>

-----------------------------------------------------------------------------
(* SpecOverflow: the walk of namespace PMatcher over a tree with names that do
   not fit the path buffer and with a directory whose listing yields nothing *)

N_abcd == <<"a", "b", "c", "d">>
N_abcde == <<"a", "b", "c", "d", "e">>

\* files abcde, a/abcd, a/b and b, directories c (its listing yields nothing)
\* and a; the enumerator yields abcde before its siblings and a/abcd before a/b
TreeLong ==
    << [path |-> <<N_abcde>>, dir |-> FALSE],
       [path |-> <<N_c>>, dir |-> TRUE],
       [path |-> <<N_a>>, dir |-> TRUE],
       [path |-> <<N_a, N_abcd>>, dir |-> FALSE],
       [path |-> <<N_a, N_b>>, dir |-> FALSE],
       [path |-> <<N_b>>, dir |-> FALSE] >>

InitOverflow ==
    /\ \E P \in Patterns(MaxSegments) :
         \E f \in { [tree |-> TreeLong, cwd |-> <<>>, maxPathLength |-> SmallPath],
                    [tree |-> TreeLong, cwd |-> <<>>, maxPathLength |-> MaxPath] } :
            fs = f /\ args = <<P>>
    /\ NewPathMatcher
    /\ given = <<>>
    /\ calls = <<>>
    /\ results = <<>>

SpecOverflow == InitOverflow /\ [][NextWalk]_vars

\* AppendPath can compose the path of entry j in the path buffer
Appendable(j) == Len(JoinPath(Rel(fs.tree[j]))) + 1 <= fs.maxPathLength

\* A pattern whose walk is that of C2 or of C3 and whose grooming is sound
WalkablePattern(P) ==
    /\ SimplePattern(P) \/ EllipsisPattern(P)
    /\ Groomed(P).fault = "none"

\* The entries the current call is expected to report
Expected ==
    IF HasEllipsis(args[call])
    THEN DeepMatches(GroomedSegments(args[call]))
    ELSE SegmentwiseMatches(Components(args[call], <<>>))

\* C20: a branch-local failure (a candidate name whose append would exceed the
\* path buffer, or a directory whose listing yields nothing) abandons only that
\* branch: nothing is reported for it, no error reaches the caller of Match, and
\* every other entry of the same directory, including the entries the
\* enumerator yields after the failing one, is still visited and reported if it
\* matches, in MatchDir and in FetchAll.
C20_BranchFailuresAreContained ==
    (call >= 1 /\ WalkablePattern(args[call])) =>
        /\ pc \notin {"aborted", "undefined"}
        /\ ReportsExactly({ j \in Expected : Appendable(j) })

\* C20 for MatchDir with patterns of '?' and '*' segments: the loop goes on
\* after an append that failed
C20_MatchDirGoesOn ==
    (/\ call >= 1
     /\ SimplePattern(args[call])
     /\ \A k \in 1..Len(Components(args[call], <<>>)) :
           \E i \in 1..Len(Components(args[call], <<>>)[k]) :
              Components(args[call], <<>>)[k][i] \in {"?", "*"}) =>
        /\ pc \notin {"aborted", "undefined"}
        /\ ReportsExactly({ j \in Expected : Appendable(j) })

\* C20 for FetchAll: the loop goes on after an append that failed
C20_FetchAllGoesOn ==
    (call >= 1 /\ WalkablePattern(args[call]) /\ HasEllipsis(args[call])) =>
        ReportsExactly({ j \in Expected : Appendable(j) })

\* C20: nothing is reported for an entry whose path cannot be composed
C20_NothingReportedForTheFailure ==
    \A i \in 1..Len(log) : log[i].kind = "report" => Len(log[i].path) + 1 <= fs.maxPathLength

-----------------------------------------------------------------------------
(* Find handles.  The revision of the walk that lists directories with
   FindFirstFile, FindNextFile and FindClose makes the steps of MatchDir and
   FetchAll above and holds a HANDLE per listing, recorded in find_handles.  The
   revision with DirectoryIterator holds the listing in a unique_ptr of the
   activation, which is dirEntry of the frame. *)

\* The find handles held by the activations of MatchDir and FetchAll
HeldHandles == { stack[i].find_handle : i \in 1..Len(stack) } \ {INVALID_HANDLE_VALUE}

\* C21: every directory-enumeration handle opened during a walk is closed by
\* the time the call of MatchDir or FetchAll that opened it returns, on every
\* exit path (listing exhausted, candidate name too long for the buffer,
\* callback returning false); after Match returns, no handle is open.
C21_HandlesClosedOnReturn ==
    (pc \in {"ready", "walking"}) => find_handles \subseteq HeldHandles

\* C21 for the walks in which the callback never returned false in FetchAll
C21_HandlesClosedWithoutCancel ==
    (/\ pc \in {"ready", "walking"}
     /\ \A i \in 1..Len(log) :
           (log[i].kind = "report" /\ ~log[i].ret) => ~HasEllipsis(args[log[i].call])) =>
        find_handles \subseteq HeldHandles

\* C21: a handle an activation holds is open
C21_HeldHandlesAreOpen ==
    (pc = "walking") => HeldHandles \subseteq find_handles

-----------------------------------------------------------------------------
(* SpecOrder: the walk over a tree whose listings are not in name order *)

N_w == <<"w">>

\* the enumerator yields b, a, c in the current directory and z, y in a
TreeShuffled ==
    << [path |-> <<N_b>>, dir |-> FALSE],
       [path |-> <<N_a>>, dir |-> TRUE],
       [path |-> <<N_c>>, dir |-> TRUE],
       [path |-> <<N_c, N_x>>, dir |-> FALSE],
       [path |-> <<N_a, N_z>>, dir |-> FALSE],
       [path |-> <<N_a, N_y>>, dir |-> TRUE],
       [path |-> <<N_a, N_y, N_w>>, dir |-> FALSE],
       [path |-> <<N_c, N_a>>, dir |-> TRUE] >>

InitOrder ==
    /\ \E P \in Patterns(MaxSegments) :
         /\ fs = [tree |-> TreeShuffled, cwd |-> <<>>, maxPathLength |-> MaxPath]
         /\ args = <<P>>
    /\ NewPathMatcher
    /\ given = <<>>
    /\ calls = <<>>
    /\ results = <<>>

SpecOrder == InitOrder /\ [][NextWalk]_vars

\* The place of the entry with path p in the enumeration of its directory
Place(p) == CHOOSE i \in 1..Len(fs.tree) : fs.tree[i].path = p

\* The first component in which the paths p and q differ
Fork(p, q) == CHOOSE d \in 1..Len(p) : p[d] # q[d] /\ \A e \in 1..(d - 1) : p[e] = q[e]

\* Entry j comes before entry m in the depth-first, pre-order walk that takes
\* each directory in enumeration order
PreOrderBefore(j, m) ==
    LET p == fs.tree[j].path
        q == fs.tree[m].path
    IN  \/ (Len(p) < Len(q) /\ IsPrefix(p, q))
        \/ /\ ~IsPrefix(p, q)
           /\ ~IsPrefix(q, p)
           /\ Place(SubSeq(p, 1, Fork(p, q))) < Place(SubSeq(q, 1, Fork(p, q)))

\* C22: reports are delivered depth-first, pre-order, in enumeration order: a
\* matching directory is reported before any entry beneath it, and every report
\* from beneath one entry precedes every report for an entry that the
\* enumerator yields later in the same directory.
C22_ReportsInPreOrder ==
    \A i, k \in CallEvents("report") :
        \A j, m \in 1..Len(fs.tree) :
            (i < k /\ Reports(i, j) /\ Reports(k, m)) => PreOrderBefore(j, m)

\* A multi-segment fetch has reported a and, beneath it, z, y and w, and then c
\* which the enumerator yields after a, and the walk has returned
C22_Witness ==
    /\ Finished
    /\ HasEllipsis(args[call])
    /\ \E i1, i2, i3, i4 \in CallEvents("report") :
          /\ i1 < i2 /\ i2 < i3 /\ i3 < i4
          /\ log[i1].path = N_a
          /\ log[i2].path = JoinPath(<<N_a, N_y>>)
          /\ log[i3].path = JoinPath(<<N_a, N_y, N_w>>)
          /\ log[i4].path = N_c

-----------------------------------------------------------------------------
(* The directories-only flag over several Match calls on one PathMatcher *)

\* The entries with one component per segment, each accepted by wildComp for
\* its segment, directories or not
SegmentwiseEntries(segs) ==
    { j \in BelowCwd :
        /\ Len(Rel(fs.tree[j])) = Len(segs)
        /\ \A k \in 1..Len(segs) : PMatcher_wildComp(segs[k], Rel(fs.tree[j])[k]) }

\* C23: the directories-only flag used by a Match call depends only on that
\* call's pattern: after any sequence of Match calls on one PathMatcher, a call
\* whose pattern does not end in a separator still reports the matching entries
\* that are not directories, even when the pattern of an earlier call ended in a
\* separator.
C23_DirsOnlyDependsOnThePatternAlone ==
    /\ (call >= 1 /\ pc = "walking" /\ Groomed(args[call]).fault = "none")
          => (m_dirsOnly = Groomed(args[call]).dirsOnly)
    /\ (call >= 1 /\ SimplePattern(args[call]) /\ PathsFit /\ Finished /\ ~Cancelled)
          => \A j \in SegmentwiseEntries(Components(args[call], <<>>)) :
                \E i \in CallEvents("report") : Reports(i, j)

\* C23 for the first Match call on a PathMatcher
C23_FirstCallFollowsItsPattern ==
    /\ (call = 1 /\ pc = "walking" /\ Groomed(args[call]).fault = "none")
          => (m_dirsOnly = Groomed(args[call]).dirsOnly)
    /\ (call = 1 /\ SimplePattern(args[call]) /\ PathsFit /\ Finished /\ ~Cancelled)
          => \A j \in SegmentwiseEntries(Components(args[call], <<>>)) :
                \E i \in CallEvents("report") : Reports(i, j)

-----------------------------------------------------------------------------
(* The path buffer: m_path[0 .. maxPathLength] *)

\* C24: every write to the path buffer during a Match call lands at an index in
\* [0, maxPathLength]: MatchDir, FetchAll and AppendPath never store a character
\* (an appended name, the separator after a directory, the '*' of a listing, or
\* a terminator) beyond the buffer of maxPathLength + 1 characters, including
\* when a directory path fills the buffer exactly.
C24_WritesStayInTheBuffer ==
    /\ ~oob
    /\ Len(m_path) <= fs.maxPathLength
    /\ \A i \in 1..Len(log) : Len(log[i].path) <= fs.maxPathLength

\* C24 for the paths that are reported: a reported path and its terminator lie
\* in the buffer
C24_ReportsStayInTheBuffer ==
    \A i \in 1..Len(log) : (log[i].kind = "report") => Len(log[i].path) <= fs.maxPathLength

\* C24 for FetchAll: the listings of a multi-segment fetch lie in the buffer
C24_FetchAllStaysInTheBuffer ==
    \A n \in 1..Len(stack) :
        (stack[n].fn = "FetchAll" /\ stack[n].at = "loop") => stack[n].pathend + 1 <= fs.maxPathLength

-----------------------------------------------------------------------------
(* SpecRoot: Match on patterns that begin with a separator, from the current
   directory a *)

InitRoot ==
    /\ \E P \in Patterns(MaxSegments - 1), lead \in { <<"/">>, <<"\\">> } :
         /\ fs = [tree |-> TreeSmall, cwd |-> <<N_a>>, maxPathLength |-> MaxPath]
         /\ args = <<lead \o P>>
    /\ NewPathMatcher
    /\ given = <<>>
    /\ calls = <<>>
    /\ results = <<>>

SpecRoot == InitRoot /\ [][NextWalk]_vars

BeginsWithSeparator(s) == s # <<>> /\ isSlash(s[1])

\* C25: for a pattern that begins with a separator, Match searches from the
\* namespace root: the first directory listed is the root and every reported
\* path begins with a separator, also when the leading separator is the only
\* separator before the first wildcard or the only separator in the pattern.
C25_LeadingSeparatorSearchesTheRoot ==
    (call >= 1 /\ BeginsWithSeparator(args[call])) =>
        \A i \in CallEvents("list") \cup CallEvents("report") : BeginsWithSeparator(log[i].path)

\* C25 for the patterns with a second separator before their first wildcard
C25_RootedBySecondSeparator ==
    (/\ call >= 1
     /\ BeginsWithSeparator(args[call])
     /\ Groomed(args[call]).fault = "none"
     /\ RootScan(Groomed(args[call]).pattern, 0, 0, 0).rootend > 0) =>
        \A i \in CallEvents("list") \cup CallEvents("report") : BeginsWithSeparator(log[i].path)

-----------------------------------------------------------------------------
(* SpecGroom: CopyGroomedPattern of both revisions on raw patterns of
   separators, dots and a letter.  Each case makes two calls:
     1. CopyGroomedPattern of the revision that asserts on a closing separator
     2. CopyGroomedPattern of the revision with pastAnyLeadingSlashes        *)

\* dirsOnly: the value of m_dirsOnly that earlier calls have left
CallCopyGroomedPattern ==
    /\ Len(results) < Len(calls)
    /\ NextCall.fn = "PMatcher::CopyGroomedPattern"
    /\ \E dirsOnly \in BOOLEAN :
          results' = Append(results, CopyGroomedPattern(NextCall.pattern, dirsOnly))
    /\ UNCHANGED <<given, calls, walkVars>>

CallPathMatchCopyGroomedPattern ==
    /\ Len(results) < Len(calls)
    /\ NextCall.fn = "PathMatch::CopyGroomedPattern"
    /\ \E dirsOnly \in BOOLEAN :
          results' = Append(results, PathMatch_CopyGroomedPattern(NextCall.pattern, dirsOnly))
    /\ UNCHANGED <<given, calls, walkVars>>

NextGroom == CallCopyGroomedPattern \/ CallPathMatchCopyGroomedPattern

InitGroom ==
    /\ \E P \in Strs({"a", ".", "/", "\\"}, MaxRawLen) : given = [pattern |-> P]
    /\ calls = << [fn |-> "PMatcher::CopyGroomedPattern", pattern |-> given.pattern],
                  [fn |-> "PathMatch::CopyGroomedPattern", pattern |-> given.pattern] >>
    /\ results = <<>>
    /\ NoWalk

SpecGroom == InitGroom /\ [][NextGroom]_vars

\* C26: for every raw pattern, CopyGroomedPattern runs without an out-of-range
\* access or assertion failure: it never reads the source pattern past its
\* terminator, never reads or writes the destination outside its buffer, and
\* its closing assertion holds; this includes patterns made only of separators,
\* patterns that end in '..', and patterns in which '..' removes every segment.
C26_GroomingStaysInRange ==
    \A i \in 1..Len(results) : results[i].fault = "none"

\* C26 for the patterns made only of separators, in the revision with
\* pastAnyLeadingSlashes
C26_SeparatorsOnlyGroomSoundly ==
    (Len(results) = 2 /\ SeparatorsOnly(given.pattern)) => results[2].fault = "none"

\* C26 for the patterns of letters and separators, in the revision with
\* pastAnyLeadingSlashes
C26_NoDotsGroomSoundly ==
    (Len(results) = 2 /\ \A i \in 1..Len(given.pattern) : given.pattern[i] # ".")
        => results[2].fault = "none"

-----------------------------------------------------------------------------
(* SpecPrefix: the ellipsis prefix filter of FetchAll against pathMatch.  A
   case is a segment pre... with the rest of the pattern and a path below the
   directory where the fetch starts: first is its first component, below the
   remainder.  Each case makes four calls:
     1. pathMatch(pre...rest, first below)       namespace PMatcher
     2. wildComp(pre*, first)                     the filter, namespace PMatcher
     3. pathMatch(pre...rest, first below)       namespace PathMatch
     4. wildComp(pre*, first)                     the filter, namespace PathMatch *)

InitPrefix ==
    /\ \E pre \in Strs({"a", "A", "?", "*"}, MaxAffixLen),
          rest \in Strs({"a", "?", "/"}, MaxAffixLen),
          first \in Strs({"a", "A", "b"}, MaxAffixLen),
          below \in Strs({"a", "\\"}, MaxStrLen) :
            /\ pre # <<>>
            /\ first # <<>>
            /\ IF below = <<>> THEN TRUE
               ELSE /\ below[1] = "\\"
                    /\ below[Len(below)] # "\\"
                    /\ \A i \in 1..(Len(below) - 1) : ~(below[i] = "\\" /\ below[i + 1] = "\\")
            /\ given = [pre |-> pre, rest |-> rest, first |-> first, below |-> below]
    /\ calls = << [fn |-> "PMatcher::pathMatch",
                   pattern |-> given.pre \o Ellipsis \o given.rest,
                   string |-> given.first \o given.below],
                  [fn |-> "PMatcher::wildComp",
                   pattern |-> Append(given.pre, "*"), string |-> given.first],
                  [fn |-> "PathMatch::pathMatch",
                   pattern |-> given.pre \o Ellipsis \o given.rest,
                   string |-> given.first \o given.below],
                  [fn |-> "PathMatch::wildComp",
                   pattern |-> Append(given.pre, "*"), string |-> given.first] >>
    /\ results = <<>>
    /\ NoWalk

SpecPrefix == InitPrefix /\ [][NextMatchers]_vars

\* C27: in a multi-segment fetch the ellipsis prefix filter (the text before the
\* multi-segment wildcard in its segment, followed by '*') is applied only to the
\* entries of the directory where the fetch starts, and the filter never
\* excludes a first-level entry that is itself, or has a descendant, whose
\* relative path pathMatch accepts for the remaining pattern.
C27_PrefixFilterKeepsMatches ==
    /\ (Len(results) >= 2 /\ results[1]) => results[2]
    /\ (Len(results) = 4 /\ results[3]) => (results[4] = "true")

\* C27 for the filter that compares with wildComp on C strings
C27_CStringFilterKeepsMatches ==
    (Len(results) >= 2 /\ results[1]) => results[2]

\* C27 for the filter that compares with wildComp on iterators, for names and
\* prefixes in lower case, when wildComp returns
C27_IteratorFilterKeepsLowerCaseMatches ==
    (/\ Len(results) = 4
     /\ results[3]
     /\ LowerStr(given.pre) = given.pre
     /\ LowerStr(given.first) = given.first) => (results[4] \in {"true", "abort"})

\* C27 in the walk: the directories below a first-level directory that passes
\* the filter are listed whatever their names
C27_DeeperEntriesAreVisited ==
    (/\ call >= 1
     /\ EllipsisPattern(args[call])
     /\ PathsFit
     /\ Finished
     /\ ~Cancelled
     /\ EllipsisPrefix(GroomedSegments(args[call])[FirstEllipsisSegment(GroomedSegments(args[call]))]) # <<>>) =>
        \A j \in Visited(GroomedSegments(args[call])) :
            \E i \in CallEvents("list") :
                LowerStr(log[i].path) = LowerStr(JoinPath(Rel(fs.tree[j])) \o <<c_slash, "*">>)

-----------------------------------------------------------------------------
(* SpecInner: PMatcher::pathMatch on a wildcard that follows other text in its
   segment and is followed by separators.  Each case makes two calls:
     1. pathMatch(pre wild seps rest, path)
     2. pathMatch(wild seps rest, path)                                     *)

InitInner ==
    /\ \E pre \in Strs({"a", "b", "?"}, MaxAffixLen),
          wild \in {<<"*">>, Ellipsis},
          seps \in {<<"/">>, <<"\\">>, <<"\\", "/">>},
          rest \in Strs({"a", "b", "*"}, MaxAffixLen),
          path \in Strs({"a", "b", "/"}, MaxStrLen) :
            /\ pre # <<>>
            /\ given = [pre |-> pre, wild |-> wild, seps |-> seps, rest |-> rest, path |-> path]
    /\ calls = << [fn |-> "PMatcher::pathMatch",
                   pattern |-> given.pre \o given.wild \o given.seps \o given.rest,
                   string |-> given.path],
                  [fn |-> "PMatcher::pathMatch",
                   pattern |-> given.wild \o given.seps \o given.rest,
                   string |-> given.path] >>
    /\ results = <<>>
    /\ NoWalk

SpecInner == InitInner /\ [][CallPathMatchV0]_vars

\* C28: in pathMatch the zero-width match of a wildcard followed by separators
\* applies only to a wildcard that forms a whole segment: a wildcard preceded
\* by other text in its segment still requires a separator in the path, so
\* pathMatch('a*/b', 'ab') and pathMatch('a.../b', 'ab') are false.
C28_InnerWildcardNeedsASeparator ==
    (Len(results) >= 1 /\ ~HasSlash(given.path)) => ~results[1]

\* C28 for the wildcard that forms a whole segment: the zero-width match does
\* apply, wildcard and separators match the empty string before rest
C28_WholeSegmentWildcardMatchesEmpty ==
    (Len(results) = 2 /\ PMatcher_pathMatch(given.rest, given.path)) => results[2]

\* An inner wildcard with its separators never accepts a path that rest alone
\* would reject together with the text before the wildcard
C28_InnerWildcardAcceptsPrefixedRest ==
    (Len(results) >= 1 /\ ~HasSlash(given.path) /\ results[1]) =>
        \E i \in 0..Len(given.path) :
            /\ PMatcher_wildComp(Append(given.pre, "*"), given.path)
            /\ PMatcher_pathMatch(given.rest, SubSeq(given.path, i + 1, Len(given.path)))

-----------------------------------------------------------------------------
(* SpecCaret: getNormalizedPattern on raw patterns with dots and carets
   inside their segments *)

P_a_caret == <<"a", "/", "^">>
P_x_a_dd_b == <<"x", "/", "a", ".", ".", "b">>

InitCaret ==
    /\ \/ \E P \in Strs({"a", ".", "^", "/"}, MaxRawLen) : given = [pattern |-> P]
       \/ given = [pattern |-> P_a_caret]
       \/ given = [pattern |-> P_x_a_dd_b]
    /\ calls = << [fn |-> "getNormalizedPattern", pattern |-> given.pattern] >>
    /\ results = <<>>
    /\ NoWalk

SpecCaret == InitCaret /\ [][CallGetNormalizedPattern]_vars

\* A segment of the raw pattern that is a name: not '.', not '..', and without
\* wildcard
NamePart(seg) ==
    /\ seg # <<>>
    /\ ~IsDots(seg)
    /\ ~RawWildPart(seg)

\* C29: getNormalizedPattern treats only a segment exactly equal to '..' as a
\* parent reference: a segment that merely contains two adjacent dots (such as
\* 'a..b') or that is or contains a literal caret '^' comes out with its
\* characters unchanged and never removes the segment before it, so 'a/^'
\* yields [a, ^] and 'x/a..b' yields [x, a..b].
C29_OnlyDotDotIsAParent ==
    (/\ Len(results) >= 1
     /\ \A i \in 1..Len(RawParts(given.pattern)) : NamePart(RawParts(given.pattern)[i])) =>
        results[1] = RootPart(given.pattern) \o RawParts(given.pattern)

\* C29 for the segments without caret and without two adjacent dots
C29_PlainNamesComeOutUnchanged ==
    (/\ Len(results) >= 1
     /\ \A i \in 1..Len(RawParts(given.pattern)) :
           /\ NamePart(RawParts(given.pattern)[i])
           /\ \A k \in 1..Len(RawParts(given.pattern)[i]) : RawParts(given.pattern)[i][k] # "^"
           /\ \A k \in 1..(Len(RawParts(given.pattern)[i]) - 1) :
                 ~(RawParts(given.pattern)[i][k] = "." /\ RawParts(given.pattern)[i][k + 1] = ".")) =>
        results[1] = RootPart(given.pattern) \o RawParts(given.pattern)

-----------------------------------------------------------------------------
(* SpecReturn: the walk over TreeSmall for patterns of one segment,
   with the running program taking its next step as long as it has one *)

InitReturn ==
    /\ \E P \in Patterns(MaxSegments - 2) :
         \E f \in { [tree |-> TreeSmall, cwd |-> <<>>, maxPathLength |-> MaxPath],
                    [tree |-> TreeSmall, cwd |-> <<>>, maxPathLength |-> SmallPath] } :
            fs = f /\ args = <<P>>
    /\ NewPathMatcher
    /\ given = <<>>
    /\ calls = <<>>
    /\ results = <<>>

\* A step of a Match call that is under way. Whether Match is called at all is
\* the caller's choice; a call that was made keeps running.
WalkStep ==
    \/ MatchDir
    \/ HandleEllipsisSubpath
    \/ MatchDirNext
    \/ FetchAll
    \/ FetchAllNext
    \/ MatchReturns

SpecReturn == InitReturn /\ [][NextWalk]_vars /\ WF_vars(WalkStep)

\* C30: wildComp and pathMatch terminate on every finite pattern and string,
\* and a Match call returns to its caller on every finite tree and every
\* pattern, whether the callback always continues or cancels at any point.
C30_MatchReturns == (pc # "ready") ~> (pc = "ready")

\* C30 for a Match call that has begun its walk and whose walk does not stop
\* the program: it returns
C30_WalkingReturnsOrStops == (pc = "walking") ~> (pc \in {"ready", "aborted"})

=============================================================================
